---- MODULE Spec2Model ----
(***************************************************************************)
(* A model of batsim_py's Job entity (src/batsim_py/jobs.py): the job     *)
(* lifecycle state machine, the derived metrics, and the one-shot event   *)
(* dispatch that binds the transitions to their observers; and of the     *)
(* monitors (src/batsim_py/monitors.py) that accumulate statistics from   *)
(* the job, host and simulator events.                                     *)
(*                                                                         *)
(* One Job object is live at a time; the runs with monitors create the    *)
(* jobs one after another.  Times are integers (float(x) keeps the        *)
(* numeric value of every argument used here); an Optional value is       *)
(* None == <<>> or Some(x) == <<x>>.  A quotient is an exact fraction     *)
(* <<n, d>> in lowest terms; d = 0 stands for a raised ZeroDivisionError. *)
(***************************************************************************)
EXTENDS Integers, Sequences, FiniteSets, TLC

\* ------------------------------------------------------------------ bounds
MaxTime == 2        \* time arguments range over -1 .. MaxTime
MaxRes == 2         \* requested resources range over 1 .. MaxRes
MaxDispatch == 2    \* an event kind is dispatched at most this often
MaxSubs == 3        \* subscriptions made to the job's events (SpecBus)
MaxWall == 2        \* a requested walltime is unset or in 1 .. MaxWall
MaxJobs == 2        \* jobs created in a run with monitors
MaxHosts == 2       \* hosts of the platform of the host-state runs
MaxGrouped == 3     \* hosts of the platform of the power-state runs
MaxEvents == 2      \* host events dispatched in a run
MaxCpu == 2         \* length of a parallel profile's cpu list
MaxRepeat == 2      \* repeat of a composed profile
MaxBytes == 1       \* byte counts of the IO profiles
MaxRows == 2        \* rows a monitored run lets a row-per-event monitor collect

\* ------------------------------------------------------------- data model
None == <<>>
Some(x) == <<x>>
Val(o) == o[1]

JobState ==
    {"UNKNOWN", "SUBMITTED", "RUNNING", "COMPLETED_SUCCESSFULLY",
     "COMPLETED_FAILED", "COMPLETED_WALLTIME_REACHED", "COMPLETED_KILLED",
     "REJECTED", "ALLOCATED"}

\* the final states terminate accepts
Completed3 ==
    {"COMPLETED_SUCCESSFULLY", "COMPLETED_FAILED",
     "COMPLETED_WALLTIME_REACHED"}

JobEvent ==
    {"SUBMITTED", "ALLOCATED", "STARTED", "COMPLETED", "REJECTED", "KILLED"}

TimeArgs == (-1) .. MaxTime

\* the host lists handed to allocate: every length from 0 to MaxRes + 1
HostLists == {[i \in 1 .. n |-> i - 1] : n \in 0 .. (MaxRes + 1)}

VARIABLES
    state,        \* Job.__state
    subtime,      \* Job.__subtime
    allocation,   \* Job.__allocation (None or Some(list of host ids))
    start_time,   \* Job.__start_time
    stop_time,    \* Job.__stop_time
    res,          \* Job.__res
    walltime,     \* Job.__walltime (read by stretch only)
    profile,      \* Job.__profile
    receivers,    \* the dispatcher's receivers of (this job, event kind)
    delivered,    \* per event kind, the job's handlers each dispatch invoked
    subs,         \* per event kind, the subscriptions made: <<handler, epoch>>
    seen,         \* the job as the handlers of the latest dispatch saw it
    raised,       \* whether the latest privileged call raised a RuntimeError
    jid,          \* the number of the live Job (Job.id)
    now,          \* SimulatorHandler.current_time
    phase,        \* "idle", "running" (after SIMULATION_BEGINS) or "ended"
    built,        \* the monitors constructed for this run
    platform,     \* SimulatorHandler.platform: the hosts, in platform order
    nevents,      \* the number of host events dispatched so far
    jm,           \* JobMonitor.__info
    sm,           \* SchedulerMonitor.__info
    hm,           \* HostMonitor: __last_state and __info
    hs,           \* HostStateSwitchMonitor: __last_host_state and __info
    hp,           \* HostPowerStateSwitchMonitor: __last_pstate_id and __info
    ce,           \* ConsumedEnergyMonitor: __last_state and __info
    crashed       \* whether a monitor's handler raised during a dispatch

fields == <<state, subtime, allocation, start_time, stop_time>>
params == <<res, walltime, profile>>
bus == <<receivers, delivered, subs, seen>>
sim == <<now, phase, built, platform, nevents>>
jobmons == <<jm, sm>>
hostmons == <<hm, hs, hp>>
world == <<jid, sim, jobmons, hostmons, ce, crashed>>
vars == <<fields, params, bus, raised, world>>

\* ------------------------------------------------------ derived properties
is_runnable == state = "ALLOCATED"

is_running == state = "RUNNING"

is_finished == stop_time # None

\* a waiting time with the operands swapped
waiting_time_swapped ==
    IF start_time = None THEN None ELSE Some(subtime - Val(start_time))

waiting_time ==
    IF start_time = None THEN None ELSE Some(Val(start_time) - subtime)

runtime ==
    IF stop_time = None \/ start_time = None
    THEN None
    ELSE Some(Val(stop_time) - Val(start_time))

turnaround_time ==
    IF waiting_time = None \/ runtime = None
    THEN None
    ELSE Some(Val(waiting_time) + Val(runtime))

\* ------------------------------------------------------------- quotients
Abs(x) == IF x < 0 THEN -x ELSE x

RECURSIVE GCD(_, _)
GCD(a, b) == IF b = 0 THEN a ELSE GCD(b, a % b)

\* the fraction n / d (d # 0) in lowest terms with a positive denominator
Norm(q) ==
    LET g == GCD(Abs(q[1]), Abs(q[2]))
        sg == IF q[2] < 0 THEN -1 ELSE 1
    IN  <<(sg * q[1]) \div g, (sg * q[2]) \div g>>

Num(i) == <<i, 1>>

ZeroDivisionError == <<0, 0>>

Raises(q) == q[2] = 0

\* a / b as Python evaluates it
Quot(a, b) == IF b = 0 THEN ZeroDivisionError ELSE Norm(<<a, b>>)

RLe(p, q) == p[1] * q[2] <= q[1] * p[2]

RMax(p, q) == IF RLe(p, q) THEN q ELSE p

RAdd(p, q) == Norm(<<p[1] * q[2] + q[1] * p[2], p[2] * q[2]>>)

\* p / n as Python evaluates it, for an integer n
RDiv(p, n) == IF n = 0 THEN ZeroDivisionError ELSE Norm(<<p[1], p[2] * n>>)

\* ------------------------------------------------------- derived metrics
stretch ==
    IF waiting_time = None THEN None
    ELSE IF walltime # None
         THEN Some(Quot(Val(waiting_time), Val(walltime)))
    ELSE IF runtime # None
         THEN Some(Quot(Val(waiting_time), Val(runtime)))
    ELSE None

\* a per-processor slowdown without the floor at 1
per_processor_slowdown_unfloored ==
    IF turnaround_time = None \/ runtime = None THEN None
    ELSE Some(Quot(Val(turnaround_time), res * Val(runtime)))

per_processor_slowdown ==
    IF turnaround_time = None \/ runtime = None THEN None
    ELSE LET q == Quot(Val(turnaround_time), res * Val(runtime))
         IN  Some(IF Raises(q) THEN q ELSE RMax(Num(1), q))

slowdown ==
    IF turnaround_time = None \/ runtime = None THEN None
    ELSE LET q == Quot(Val(turnaround_time), Val(runtime))
         IN  Some(IF Raises(q) THEN q ELSE RMax(Num(1), q))

\* ------------------------------------------------------------ job profiles
ProfileName == "delay"

JobProfileType ==
    {"DELAY", "PARALLEL", "PARALLEL_HOMOGENEOUS", "PARALLEL_HOMOGENEOUS_TOTAL",
     "COMPOSED", "PARALLEL_HOMOGENEOUS_PFS", "DATA_STAGING"}

\* the exceptions a constructor raises instead of returning an object
ValueError == [type |-> "ValueError"]

TypeError == [type |-> "TypeError"]

\* isinstance(p, JobProfile)
IsJobProfile(p) == p.type \in JobProfileType

DelayJobProfile(delay) ==
    [type |-> "DELAY", name |-> ProfileName, delay |-> delay]

ParallelJobProfile(cpu, com) ==
    IF Len(com) # Len(cpu) * Len(cpu) THEN ValueError
    ELSE [type |-> "PARALLEL", name |-> ProfileName, cpu |-> cpu, com |-> com]

\* a composed profile that takes any repeat
ComposedJobProfile_any_repeat(profiles, repeat) ==
    IF \E i \in DOMAIN profiles : ~IsJobProfile(profiles[i]) THEN TypeError
    ELSE [type |-> "COMPOSED", name |-> ProfileName, repeat |-> repeat,
          profiles |-> profiles]

ComposedJobProfile(profiles, repeat) ==
    IF repeat <= 0 THEN ValueError
    ELSE IF \E i \in DOMAIN profiles : ~IsJobProfile(profiles[i])
         THEN TypeError
    ELSE [type |-> "COMPOSED", name |-> ProfileName, repeat |-> repeat,
          profiles |-> profiles]

ParallelHomogeneousPFSJobProfile(bytes_to_read, bytes_to_write, storage) ==
    IF bytes_to_read < 0 THEN ValueError
    ELSE IF bytes_to_write < 0 THEN ValueError
    ELSE IF storage = "" THEN ValueError
    ELSE [type |-> "PARALLEL_HOMOGENEOUS_PFS", name |-> ProfileName,
          bytes_to_read |-> bytes_to_read, bytes_to_write |-> bytes_to_write,
          storage |-> storage]

DataStagingJobProfile(nb_bytes, src, dest) ==
    IF nb_bytes < 0 THEN ValueError
    ELSE IF src = "" THEN ValueError
    ELSE IF dest = "" THEN ValueError
    ELSE [type |-> "DATA_STAGING", name |-> ProfileName,
          nb_bytes |-> nb_bytes, src |-> src, dest |-> dest]

\* ------------------------------------------------------------ job monitors
WorkloadName == "w0"

\* the Job a handler receives as sender, read through its properties
Sender ==
    [id |-> jid, workload |-> WorkloadName, profile |-> ProfileName,
     state |-> state, subtime |-> subtime, res |-> res,
     walltime |-> walltime, allocation |-> allocation,
     start_time |-> start_time, stop_time |-> stop_time,
     is_finished |-> is_finished, waiting_time |-> waiting_time,
     runtime |-> runtime, turnaround_time |-> turnaround_time,
     stretch |-> stretch, slowdown |-> slowdown,
     per_processor_slowdown |-> per_processor_slowdown]

\* ProcSet(*ids): the set of the ids
ProcSet(ids) == {ids[i] : i \in DOMAIN ids}

\* the columns of JobMonitor, in the order __update_info appends to them
JobColumns ==
    <<"job_id", "workload_name", "profile", "submission_time",
      "requested_number_of_resources", "requested_time", "success",
      "final_state", "starting_time", "execution_time", "finish_time",
      "waiting_time", "turnaround_time", "stretch", "allocated_resources",
      "consumed_energy">>

ColumnSet == {JobColumns[i] : i \in DOMAIN JobColumns}

ColumnIndex(c) == CHOOSE i \in DOMAIN JobColumns : JobColumns[i] = c

JobMonitorInit == [c \in ColumnSet |-> <<>>]

\* the record JobMonitor.__update_info appends for sender j
JobRow(j) ==
    [job_id |-> j.id,
     workload_name |-> j.workload,
     profile |-> j.profile,
     submission_time |-> j.subtime,
     requested_number_of_resources |-> j.res,
     requested_time |-> j.walltime,
     success |-> IF j.state = "COMPLETED_SUCCESSFULLY" THEN 1 ELSE 0,
     final_state |-> j.state,
     starting_time |-> j.start_time,
     execution_time |-> j.runtime,
     finish_time |-> j.stop_time,
     waiting_time |-> j.waiting_time,
     turnaround_time |-> j.turnaround_time,
     stretch |-> j.stretch,
     allocated_resources |->
         IF j.allocation = None \/ Val(j.allocation) = <<>>
         THEN None ELSE Some(ProcSet(Val(j.allocation))),
     consumed_energy |-> -1]

\* reading sender.stretch raises
StretchRaises(j) == j.stretch # None /\ Raises(Val(j.stretch))

\* JobMonitor.__update_info raises for sender j
update_info_raises(j) == StretchRaises(j)

\* JobMonitor.__update_info: the appends run in column order and stop at the
\* first one whose value raises
update_info(m, j) ==
    LET done == IF update_info_raises(j)
                THEN ColumnIndex("stretch") - 1 ELSE Len(JobColumns)
        row == JobRow(j)
    IN  [c \in ColumnSet |->
            IF ColumnIndex(c) <= done THEN Append(m[c], row[c])
            ELSE m[c]]

SchedulerMonitorInit ==
    [makespan |-> 0, max_slowdown |-> Num(0), max_stretch |-> Num(0),
     max_waiting_time |-> Num(0), max_turnaround_time |-> Num(0),
     mean_slowdown |-> Num(0), mean_pp_slowdown |-> Num(0),
     mean_stretch |-> Num(0), mean_waiting_time |-> Num(0),
     mean_turnaround_time |-> Num(0), nb_jobs |-> 0,
     nb_jobs_finished |-> 0, nb_jobs_killed |-> 0, nb_jobs_rejected |-> 0,
     nb_jobs_success |-> 0]

\* SchedulerMonitor.__on_job_completed raises for sender j: the assertion on
\* the simulator, or the first metric whose getter raises
on_job_completed_raises(j, ph) ==
    \/ ph = "idle"
    \/ /\ j.is_finished
       /\ \/ Raises(Val(j.slowdown))
          \/ Raises(Val(j.per_processor_slowdown))
          \/ StretchRaises(j)

\* a completion handler that counts as killed only the COMPLETED_KILLED jobs
on_job_completed_killed_only(m, j, t, ph) ==
    LET m0 == [m EXCEPT !.makespan = t]
        m1 == [m0 EXCEPT !.mean_slowdown = RAdd(@, Val(j.slowdown))]
        m2 == [m1 EXCEPT !.mean_pp_slowdown =
                             RAdd(@, Val(j.per_processor_slowdown))]
        m3 == [m2 EXCEPT
                 !.mean_stretch = RAdd(@, Val(j.stretch)),
                 !.mean_waiting_time = RAdd(@, Num(Val(j.waiting_time))),
                 !.mean_turnaround_time =
                     RAdd(@, Num(Val(j.turnaround_time))),
                 !.max_waiting_time = RMax(Num(Val(j.waiting_time)), @),
                 !.max_stretch = RMax(Val(j.stretch), @),
                 !.max_slowdown = RMax(Val(j.slowdown), @),
                 !.max_turnaround_time =
                     RMax(Num(Val(j.turnaround_time)), @),
                 !.nb_jobs_finished = @ + 1]
    IN  IF ph = "idle" THEN m
        ELSE IF ~j.is_finished THEN m
        ELSE IF Raises(Val(j.slowdown)) THEN m0
        ELSE IF Raises(Val(j.per_processor_slowdown)) THEN m1
        ELSE IF StretchRaises(j) THEN m2
        ELSE IF j.state = "COMPLETED_SUCCESSFULLY"
             THEN [m3 EXCEPT !.nb_jobs_success = @ + 1]
        ELSE IF j.state = "COMPLETED_KILLED"
             THEN [m3 EXCEPT !.nb_jobs_killed = @ + 1]
        ELSE m3

\* SchedulerMonitor.__on_job_completed at time t: the statements run in
\* order and stop at the first one that raises
on_job_completed(m, j, t, ph) ==
    LET m0 == [m EXCEPT !.makespan = t]
        m1 == [m0 EXCEPT !.mean_slowdown = RAdd(@, Val(j.slowdown))]
        m2 == [m1 EXCEPT !.mean_pp_slowdown =
                             RAdd(@, Val(j.per_processor_slowdown))]
        m3 == [m2 EXCEPT
                 !.mean_stretch = RAdd(@, Val(j.stretch)),
                 !.mean_waiting_time = RAdd(@, Num(Val(j.waiting_time))),
                 !.mean_turnaround_time =
                     RAdd(@, Num(Val(j.turnaround_time))),
                 !.max_waiting_time = RMax(Num(Val(j.waiting_time)), @),
                 !.max_stretch = RMax(Val(j.stretch), @),
                 !.max_slowdown = RMax(Val(j.slowdown), @),
                 !.max_turnaround_time =
                     RMax(Num(Val(j.turnaround_time)), @),
                 !.nb_jobs_finished = @ + 1]
    IN  IF ph = "idle" THEN m
        ELSE IF ~j.is_finished THEN m
        ELSE IF Raises(Val(j.slowdown)) THEN m0
        ELSE IF Raises(Val(j.per_processor_slowdown)) THEN m1
        ELSE IF StretchRaises(j) THEN m2
        ELSE IF j.state = "COMPLETED_SUCCESSFULLY"
             THEN [m3 EXCEPT !.nb_jobs_success = @ + 1]
        ELSE IF j.state \in {"COMPLETED_KILLED",
                             "COMPLETED_WALLTIME_REACHED",
                             "COMPLETED_FAILED"}
             THEN [m3 EXCEPT !.nb_jobs_killed = @ + 1]
        ELSE m3

on_job_submitted(m) == [m EXCEPT !.nb_jobs = @ + 1]

on_job_rejected(m) == [m EXCEPT !.nb_jobs_rejected = @ + 1]

\* an end handler that divides by the finished count itself
sm_on_simulation_ends_unguarded(m, t) ==
    [m EXCEPT !.makespan = t,
              !.mean_waiting_time = RDiv(@, m.nb_jobs_finished),
              !.mean_slowdown = RDiv(@, m.nb_jobs_finished),
              !.mean_pp_slowdown = RDiv(@, m.nb_jobs_finished),
              !.mean_stretch = RDiv(@, m.nb_jobs_finished),
              !.mean_turnaround_time = RDiv(@, m.nb_jobs_finished)]

\* SchedulerMonitor.__on_simulation_ends at time t
sm_on_simulation_ends(m, t) ==
    LET nb_finished ==
            IF m.nb_jobs_finished > 1 THEN m.nb_jobs_finished ELSE 1
    IN  [m EXCEPT !.makespan = t,
                  !.mean_waiting_time = RDiv(@, nb_finished),
                  !.mean_slowdown = RDiv(@, nb_finished),
                  !.mean_pp_slowdown = RDiv(@, nb_finished),
                  !.mean_stretch = RDiv(@, nb_finished),
                  !.mean_turnaround_time = RDiv(@, nb_finished)]

\* ----------------------------------------------------------- host monitors
HostState == {"IDLE", "COMPUTING", "SWITCHING_OFF", "SWITCHING_ON", "SLEEPING"}

PowerStateType == {"NORMAL", "SWITCHING_ON", "SWITCHING_OFF"}

HostIds(plat) == {plat[i].id : i \in DOMAIN plat}

\* power or 0
Wattage(power) == IF power = None THEN 0 ELSE Val(power)

HostMonitorInit ==
    [last |-> [i \in {} |-> <<>>],
     info |-> [time_idle |-> 0, time_computing |-> 0,
               time_switching_off |-> 0, time_switching_on |-> 0,
               time_sleeping |-> 0, consumed_joules |-> 0,
               energy_waste |-> 0, nb_switches |-> 0,
               nb_computing_machines |-> 0]]

Snapshot(h, t) == <<t, h.power, h.state, h.pstate>>

\* HostMonitor.__on_simulation_begins at time t
hm_on_simulation_begins(plat, t) ==
    [last |-> [i \in HostIds(plat) |->
                 LET h == CHOOSE x \in {plat[k] : k \in DOMAIN plat} : x.id = i
                 IN  Snapshot(h, t)],
     info |-> [HostMonitorInit.info EXCEPT
                 !.nb_computing_machines = Len(plat)]]

\* the time bucket of a recorded host state
TimeKey(st) ==
    CASE st = "IDLE" -> "time_idle"
      [] st = "COMPUTING" -> "time_computing"
      [] st = "SWITCHING_OFF" -> "time_switching_off"
      [] st = "SWITCHING_ON" -> "time_switching_on"
      [] st = "SLEEPING" -> "time_sleeping"

\* an update that charges the interval to the host's new state
hm_update_info_new_state(m, h, t) ==
    LET l == m.last[h.id]
        time_spent == t - l[1]
        energy_consumption == time_spent * Wattage(l[2])
        energy_wasted ==
            IF h.state \in {"IDLE", "SWITCHING_OFF", "SWITCHING_ON"}
            THEN energy_consumption ELSE 0
        switched == h.pstate # None /\ Val(l[4]).id # Val(h.pstate).id
    IN  [last |-> [m.last EXCEPT ![h.id] = Snapshot(h, t)],
         info |-> [m.info EXCEPT
                     ![TimeKey(h.state)] = @ + time_spent,
                     !.consumed_joules = @ + energy_consumption,
                     !.energy_waste = @ + energy_wasted,
                     !.nb_switches = IF switched THEN @ + 1 ELSE @]]

\* a HostMonitor that lets a recorded state it cannot classify pass
hm_update_info_silent(m, h) == FALSE

\* HostMonitor.__update_info raises NotImplementedError for host h: the
\* state recorded at the host's last observation is none of the five
hm_update_info_raises(m, h) == m.last[h.id][3] \notin HostState

\* HostMonitor.__update_info for host h at time t; the raise comes before
\* any update
hm_update_info(m, h, t) ==
    LET l == m.last[h.id]
        time_spent == t - l[1]
        energy_consumption == time_spent * Wattage(l[2])
        energy_wasted ==
            IF l[3] \in {"IDLE", "SWITCHING_OFF", "SWITCHING_ON"}
            THEN energy_consumption ELSE 0
        switched == h.pstate # None /\ Val(l[4]).id # Val(h.pstate).id
    IN  IF l[3] \notin HostState THEN m
        ELSE [last |-> [m.last EXCEPT ![h.id] = Snapshot(h, t)],
              info |-> [m.info EXCEPT
                          ![TimeKey(l[3])] = @ + time_spent,
                          !.consumed_joules = @ + energy_consumption,
                          !.energy_waste = @ + energy_wasted,
                          !.nb_switches = IF switched THEN @ + 1 ELSE @]]

\* an end handler that flushes the first host only
RECURSIVE hm_flush_first(_, _, _, _)
hm_flush_first(m, plat, t, k) ==
    IF k > 1 \/ k > Len(plat) THEN m
    ELSE hm_flush_first(hm_update_info(m, plat[k], t), plat, t, k + 1)

\* HostMonitor.__on_simulation_ends: __update_info for every host, from the
\* k-th host of the platform on
RECURSIVE hm_on_simulation_ends(_, _, _, _)
hm_on_simulation_ends(m, plat, t, k) ==
    IF k > Len(plat) THEN m
    ELSE IF hm_update_info_raises(m, plat[k]) THEN m
    ELSE hm_on_simulation_ends(hm_update_info(m, plat[k], t), plat, t, k + 1)

\* HostMonitor.__on_simulation_ends raises: some host's __update_info does
hm_on_simulation_ends_raises(m, plat) ==
    \E k \in DOMAIN plat : hm_update_info_raises(m, plat[k])

\* HostStateSwitchMonitor.__get_key_from_state
get_key_from_state(st) ==
    CASE st = "IDLE" -> "nb_idle"
      [] st = "COMPUTING" -> "nb_computing"
      [] st = "SLEEPING" -> "nb_sleeping"
      [] st = "SWITCHING_OFF" -> "nb_switching_off"
      [] st = "SWITCHING_ON" -> "nb_switching_on"

StateKeys ==
    {"nb_sleeping", "nb_switching_on", "nb_switching_off", "nb_idle",
     "nb_computing"}

SeriesKeys == {"time"} \cup StateKeys

HostStateSwitchMonitorInit ==
    [last |-> [i \in {} |-> ""], info |-> [k \in SeriesKeys |-> <<>>]]

\* HostStateSwitchMonitor.__on_simulation_begins at time t
hs_on_simulation_begins(plat, t) ==
    [last |-> [i \in HostIds(plat) |->
                 LET h == CHOOSE x \in {plat[k] : k \in DOMAIN plat} : x.id = i
                 IN  get_key_from_state(h.state)],
     info |-> [k \in SeriesKeys |->
                 IF k = "time" THEN <<t>>
                 ELSE <<Cardinality({i \in DOMAIN plat :
                            get_key_from_state(plat[i].state) = k})>>]]

\* a row for every change: the timestamp of the last row is not compared
hs_on_host_state_changed_always_appends(m, h, t) ==
    LET n == Len(m.info["time"])
        copied == [k \in SeriesKeys |->
                      IF k = "time" THEN Append(m.info[k], t)
                      ELSE Append(m.info[k], m.info[k][n])]
        r == Len(copied["time"])
        old_key == m.last[h.id]
        new_key == get_key_from_state(h.state)
        dec == [copied EXCEPT ![old_key][r] = @ - 1]
    IN  [last |-> [m.last EXCEPT ![h.id] = new_key],
         info |-> [dec EXCEPT ![new_key][r] = @ + 1]]

\* a handler that counts the host in its new state and forgets to take it
\* out of the old one
hs_on_host_state_changed_keeps_old(m, h, t) ==
    LET n == Len(m.info["time"])
        copied == IF m.info["time"][n] # t
                  THEN [k \in SeriesKeys |->
                          IF k = "time" THEN Append(m.info[k], t)
                          ELSE Append(m.info[k], m.info[k][n])]
                  ELSE m.info
        r == Len(copied["time"])
        new_key == get_key_from_state(h.state)
    IN  [last |-> [m.last EXCEPT ![h.id] = new_key],
         info |-> [copied EXCEPT ![new_key][r] = @ + 1]]

\* HostStateSwitchMonitor.__get_key_from_state raises NotImplementedError
get_key_from_state_raises(st) == st \notin HostState

\* HostStateSwitchMonitor.__on_host_state_changed for host h at time t; the
\* raise of __get_key_from_state comes after the row was copied
hs_on_host_state_changed(m, h, t) ==
    LET n == Len(m.info["time"])
        copied == IF m.info["time"][n] # t
                  THEN [k \in SeriesKeys |->
                          IF k = "time" THEN Append(m.info[k], t)
                          ELSE Append(m.info[k], m.info[k][n])]
                  ELSE m.info
        r == Len(copied["time"])
        old_key == m.last[h.id]
        new_key == get_key_from_state(h.state)
        dec == [copied EXCEPT ![old_key][r] = @ - 1]
    IN  IF get_key_from_state_raises(h.state)
        THEN [last |-> m.last, info |-> copied]
        ELSE [last |-> [m.last EXCEPT ![h.id] = new_key],
              info |-> [dec EXCEPT ![new_key][r] = @ + 1]]

Min(S) == CHOOSE x \in S : \A y \in S : x <= y

\* str(ProcSet): the maximal intervals <<lo, hi>> of the set, ascending
RECURSIVE ProcSetStr(_)
ProcSetStr(S) ==
    IF S = {} THEN <<>>
    ELSE LET lo == Min(S)
             hi == CHOOSE x \in S :
                      /\ \A y \in lo .. x : y \in S
                      /\ (x + 1) \notin S
         IN  <<<<lo, hi>>>> \o ProcSetStr(S \ (lo .. hi))

\* ProcSet.from_str
ProcSetFromStr(str) == UNION {str[i][1] .. str[i][2] : i \in DOMAIN str}

\* [h for h in platform if h.pstate]
WithPState(plat) == SelectSeq(plat, LAMBDA h : h.pstate # None)

\* itertools.groupby(hl, key = pstate id) from the k-th host on: one group
\* <<key, ids>> per run of consecutive hosts with equal keys
RECURSIVE groupby(_, _)
groupby(hl, k) ==
    IF k > Len(hl) THEN <<>>
    ELSE LET key == Val(hl[k].pstate).id
             stop == Min({j \in (k + 1) .. (Len(hl) + 1) :
                            j = Len(hl) + 1 \/ Val(hl[j].pstate).id # key})
         IN  <<<<key, {hl[j].id : j \in k .. (stop - 1)}>>>>
             \o groupby(hl, stop)

HostPowerStateSwitchMonitorInit ==
    [last |-> [i \in {} |-> 0],
     info |-> [time |-> <<>>, machine_id |-> <<>>, new_pstate |-> <<>>]]

\* HostPowerStateSwitchMonitor.__on_simulation_begins at time t
hp_on_simulation_begins(plat, t) ==
    LET hosts_ == WithPState(plat)
        groups == groupby(hosts_, 1)
    IN  [last |-> [i \in HostIds(hosts_) |->
                     LET h == CHOOSE x \in {hosts_[k] : k \in DOMAIN hosts_} :
                                 x.id = i
                     IN  Val(h.pstate).id],
         info |-> [time |-> [g \in DOMAIN groups |-> t],
                   machine_id |->
                       [g \in DOMAIN groups |-> ProcSetStr(groups[g][2])],
                   new_pstate |-> [g \in DOMAIN groups |-> groups[g][1]]]]

\* the code recorded for a power state
PStateCode(ps) ==
    IF ps.type = "SWITCHING_OFF" THEN -2
    ELSE IF ps.type = "SWITCHING_ON" THEN -1
    ELSE ps.id

\* a handler that merges on equal timestamps whatever the code
hp_on_host_power_state_changed_any_code(m, h, t) ==
    IF h.id \notin DOMAIN m.last THEN m
    ELSE IF m.last[h.id] = Val(h.pstate).id THEN m
    ELSE LET new_pstate_id == PStateCode(Val(h.pstate))
             n == Len(m.info.time)
             last2 == [m.last EXCEPT ![h.id] = Val(h.pstate).id]
         IN  IF m.info.time[n] = t
             THEN [last |-> last2,
                   info |-> [m.info EXCEPT !.machine_id[n] =
                       ProcSetStr(ProcSetFromStr(@) \cup {h.id})]]
             ELSE [last |-> last2,
                   info |-> [time |-> Append(m.info.time, t),
                             machine_id |->
                                 Append(m.info.machine_id, ProcSetStr({h.id})),
                             new_pstate |->
                                 Append(m.info.new_pstate, new_pstate_id)]]

\* HostPowerStateSwitchMonitor.__on_host_power_state_changed for h at time t
hp_on_host_power_state_changed(m, h, t) ==
    IF h.id \notin DOMAIN m.last THEN m
    ELSE IF m.last[h.id] = Val(h.pstate).id THEN m
    ELSE LET new_pstate_id == PStateCode(Val(h.pstate))
             n == Len(m.info.time)
             last2 == [m.last EXCEPT ![h.id] = Val(h.pstate).id]
         IN  IF m.info.time[n] = t /\ m.info.new_pstate[n] = new_pstate_id
             THEN [last |-> last2,
                   info |-> [m.info EXCEPT !.machine_id[n] =
                       ProcSetStr(ProcSetFromStr(@) \cup {h.id})]]
             ELSE [last |-> last2,
                   info |-> [time |-> Append(m.info.time, t),
                             machine_id |->
                                 Append(m.info.machine_id, ProcSetStr({h.id})),
                             new_pstate |->
                                 Append(m.info.new_pstate, new_pstate_id)]]

\* --------------------------------------------------- ConsumedEnergyMonitor
POWER_STATE_TYPE == "p"

JOB_STARTED_TYPE == "s"

JOB_COMPLETED_TYPE == "e"

EnergyColumns == {"time", "energy", "event_type", "wattmin", "epower"}

ConsumedEnergyMonitorInit ==
    [last |-> [i \in {} |-> <<>>], info |-> [c \in EnergyColumns |-> <<>>]]

\* ConsumedEnergyMonitor.__on_simulation_begins at time t
ce_on_simulation_begins(plat, t) ==
    [last |-> [i \in HostIds(plat) |->
                 LET h == CHOOSE x \in {plat[k] : k \in DOMAIN plat} : x.id = i
                 IN  <<t, h.power, h.pstate>>],
     info |-> [c \in EnergyColumns |-> <<>>]]

\* the loop of ConsumedEnergyMonitor.__update_info from the k-th host on:
\* acc holds consumed_energy, wattmin, epower and the last states so far
RECURSIVE ce_hosts(_, _, _, _)
ce_hosts(acc, plat, t, k) ==
    IF k > Len(plat) THEN acc
    ELSE LET h == plat[k]
             l == acc.last[h.id]
             wattage == Wattage(l[2])
         IN  ce_hosts(
                 [consumed_energy |->
                      acc.consumed_energy + wattage * (t - l[1]),
                  wattmin |-> acc.wattmin
                      + (IF l[3] # None THEN Val(l[3]).watt_full ELSE 0),
                  epower |-> acc.epower + wattage,
                  last |-> [acc.last EXCEPT
                              ![h.id] = <<t, h.power, h.pstate>>]],
                 plat, t, k + 1)

\* an update that restarts the energy from 0 on every row
ce_update_info_no_carry(m, plat, t, tag) ==
    LET acc == ce_hosts([consumed_energy |-> 0, wattmin |-> 0, epower |-> 0,
                         last |-> m.last], plat, t, 1)
    IN  [last |-> acc.last,
         info |-> [time |-> Append(m.info["time"], t),
                   energy |-> Append(m.info["energy"], acc.consumed_energy),
                   event_type |-> Append(m.info["event_type"], tag),
                   wattmin |-> Append(m.info["wattmin"], acc.wattmin),
                   epower |-> Append(m.info["epower"], acc.epower)]]

\* ConsumedEnergyMonitor.__update_info at time t for an event of type tag
ce_update_info(m, plat, t, tag) ==
    LET acc == ce_hosts([consumed_energy |-> 0, wattmin |-> 0, epower |-> 0,
                         last |-> m.last], plat, t, 1)
        n == Len(m.info["energy"])
        consumed_energy ==
            acc.consumed_energy + (IF n > 0 THEN m.info["energy"][n] ELSE 0)
    IN  [last |-> acc.last,
         info |-> [time |-> Append(m.info["time"], t),
                   energy |-> Append(m.info["energy"], consumed_energy),
                   event_type |-> Append(m.info["event_type"], tag),
                   wattmin |-> Append(m.info["wattmin"], acc.wattmin),
                   epower |-> Append(m.info["epower"], acc.epower)]]

\* the monitors' handlers of job event e, run by the dispatch once the job's
\* own receivers have run (a run constructs at most one of the two monitors)
Observe(e) ==
    \E j \in {Sender'} :
        /\ jm' = IF "JobMonitor" \in built /\ e \in {"COMPLETED", "REJECTED"}
                 THEN update_info(jm, j)
                 ELSE jm
        /\ sm' = IF "SchedulerMonitor" \notin built THEN sm
                 ELSE IF e = "COMPLETED"
                      THEN on_job_completed(sm, j, now, phase)
                 ELSE IF e = "SUBMITTED" THEN on_job_submitted(sm)
                 ELSE IF e = "REJECTED" THEN on_job_rejected(sm)
                 ELSE sm
        /\ ce' = IF "ConsumedEnergyMonitor" \in built /\ phase # "idle"
                    /\ e \in {"STARTED", "COMPLETED"}
                 THEN ce_update_info(ce, platform, now,
                                     IF e = "STARTED" THEN JOB_STARTED_TYPE
                                     ELSE JOB_COMPLETED_TYPE)
                 ELSE ce
        /\ crashed' =
              \/ crashed
              \/ /\ "ConsumedEnergyMonitor" \in built
                 /\ e \in {"STARTED", "COMPLETED"}
                 /\ phase = "idle"
              \/ /\ "JobMonitor" \in built
                 /\ e \in {"COMPLETED", "REJECTED"}
                 /\ update_info_raises(j)
              \/ /\ "SchedulerMonitor" \in built
                 /\ e = "COMPLETED"
                 /\ on_job_completed_raises(j, phase)

\* ---------------------------------------------------------------- dispatch
\* handlers called before the transition is applied see the job as it was
StaleView(e) ==
    [event |-> e, state |-> state, allocation |-> allocation,
     start_time |-> start_time, stop_time |-> stop_time, subtime |-> subtime]

\* the job as the handlers of the dispatch of e find it: the transition that
\* dispatches has already assigned the fields
View(e) ==
    [event |-> e, state |-> state', allocation |-> allocation',
     start_time |-> start_time', stop_time |-> stop_time',
     subtime |-> subtime']

\* a dispatch that forgets to disconnect the listeners it has just called
DispatchKeepsListeners(e) ==
    /\ Len(delivered[e]) < MaxDispatch
    /\ delivered' = [delivered EXCEPT ![e] = Append(@, receivers[e])]
    /\ receivers' = receivers
    /\ seen' = View(e)
    /\ subs' = subs
    /\ UNCHANGED <<jid, sim, hostmons>>
    /\ Observe(e)

\* Job.__dispatch: send the event to the receivers of (job, event kind) in
\* registration order and then to the monitors, then disconnect every
\* receiver of (job, event kind); a handler that raises ends the dispatch
\* before the disconnection.  To be used after the primed job fields are
\* fixed: the handlers see the updated job.
Dispatch(e) ==
    /\ Len(delivered[e]) < MaxDispatch
    /\ delivered' = [delivered EXCEPT ![e] = Append(@, receivers[e])]
    /\ seen' = View(e)
    /\ subs' = subs
    /\ UNCHANGED <<jid, sim, hostmons>>
    /\ Observe(e)
    /\ receivers' = IF crashed' THEN receivers
                    ELSE [receivers EXCEPT ![e] = <<>>]

\* a call that raises after it has already marked the job as submitted
RaiseAfterAssignment ==
    /\ raised' = TRUE
    /\ state' = "SUBMITTED"
    /\ UNCHANGED <<subtime, allocation, start_time, stop_time>>
    /\ UNCHANGED <<params, bus, world>>

\* a privileged call that raises: nothing but the call record changes
Raise ==
    /\ raised' = TRUE
    /\ UNCHANGED <<fields, params, bus, world>>

Return == raised' = FALSE

\* ----------------------------------------------------------------- actions
\* an allocate that does not compare len(hosts) with res
AllocateAnyLength(hosts) ==
    IF allocation # None THEN Raise
    ELSE /\ allocation' = Some(hosts)
         /\ state' = "ALLOCATED"
         /\ UNCHANGED <<subtime, start_time, stop_time, params>>
         /\ Dispatch("ALLOCATED")
         /\ Return

Allocate(hosts) ==
    IF allocation # None THEN Raise
    ELSE IF Len(hosts) # res THEN Raise
    ELSE /\ allocation' = Some(hosts)
         /\ state' = "ALLOCATED"
         /\ UNCHANGED <<subtime, start_time, stop_time, params>>
         /\ Dispatch("ALLOCATED")
         /\ Return

Reject ==
    /\ UNCHANGED <<fields, params>>
    /\ Dispatch("REJECTED")
    /\ Return

\* a submit that does not look at the job's state
SubmitAnyState(t) ==
    IF t < 0 THEN Raise
    ELSE /\ state' = "SUBMITTED"
         /\ subtime' = t
         /\ UNCHANGED <<allocation, start_time, stop_time, params>>
         /\ Dispatch("SUBMITTED")
         /\ Return

Submit(t) ==
    IF state # "UNKNOWN" THEN Raise
    ELSE IF t < 0 THEN Raise
    ELSE /\ state' = "SUBMITTED"
         /\ subtime' = t
         /\ UNCHANGED <<allocation, start_time, stop_time, params>>
         /\ Dispatch("SUBMITTED")
         /\ Return

Kill(t) ==
    IF start_time = None THEN Raise
    ELSE IF t < Val(start_time) THEN Raise
    ELSE /\ stop_time' = Some(t)
         /\ state' = "COMPLETED_KILLED"
         /\ UNCHANGED <<subtime, allocation, start_time, params>>
         /\ Dispatch("KILLED")
         /\ Return

\* a start that does not require the job to be runnable
StartNotRunnable(t) ==
    IF start_time # None THEN Raise
    ELSE IF t < subtime THEN Raise
    ELSE /\ start_time' = Some(t)
         /\ state' = "RUNNING"
         /\ UNCHANGED <<subtime, allocation, stop_time, params>>
         /\ Dispatch("STARTED")
         /\ Return

Start(t) ==
    IF start_time # None THEN Raise
    ELSE IF ~is_runnable THEN Raise
    ELSE IF t < subtime THEN Raise
    ELSE /\ start_time' = Some(t)
         /\ state' = "RUNNING"
         /\ UNCHANGED <<subtime, allocation, stop_time, params>>
         /\ Dispatch("STARTED")
         /\ Return

Terminate(t, st) ==
    IF start_time = None THEN Raise
    ELSE IF st \notin Completed3 THEN Raise
    ELSE IF t < Val(start_time) THEN Raise
    ELSE /\ stop_time' = Some(t)
         /\ state' = st
         /\ UNCHANGED <<subtime, allocation, start_time, params>>
         /\ Dispatch("COMPLETED")
         /\ Return

\* ----------------------------------------------------------- specification
\* Job.__init__ with subtime, res and walltime drawn from S, R and W, and
\* nothing dispatched yet
JobCreated(S, R, W) ==
    /\ state = "UNKNOWN"
    /\ subtime \in S
    /\ allocation = None
    /\ start_time = None
    /\ stop_time = None
    /\ res \in R
    /\ walltime \in W
    /\ profile = DelayJobProfile(1)
    /\ receivers = [e \in JobEvent |-> <<>>]
    /\ delivered = [e \in JobEvent |-> <<>>]
    /\ subs = [e \in JobEvent |-> <<>>]
    /\ seen = [event |-> "none"]
    /\ raised = FALSE

\* the monitors B constructed over a platform drawn from P, before the
\* simulation begins
MonitorsBuilt(B, P) ==
    /\ jid = 1
    /\ now = 0
    /\ phase = "idle"
    /\ built = B
    /\ platform \in P
    /\ nevents = 0
    /\ jm = JobMonitorInit
    /\ sm = SchedulerMonitorInit
    /\ hm = HostMonitorInit
    /\ hs = HostStateSwitchMonitorInit
    /\ hp = HostPowerStateSwitchMonitorInit
    /\ ce = ConsumedEnergyMonitorInit
    /\ crashed = FALSE

Init ==
    /\ JobCreated(0 .. MaxTime, 1 .. MaxRes, {None})
    /\ MonitorsBuilt({}, {<<>>})

\* the engine's privileged calls, with time arguments drawn from T
JobNext(T) ==
    \/ \E hosts \in HostLists : Allocate(hosts)
    \/ Reject
    \/ \E t \in T : Submit(t)
    \/ \E t \in T : Kill(t)
    \/ \E t \in T : Start(t)
    \/ \E t \in T, st \in JobState : Terminate(t, st)

Next == JobNext(TimeArgs)

Spec == Init /\ [][Next]_vars

\* ------------------------------------------------------- the job's observers
NbSubs(e) == Len(subs[e])

TotalSubs ==
    NbSubs("SUBMITTED") + NbSubs("ALLOCATED") + NbSubs("STARTED")
    + NbSubs("COMPLETED") + NbSubs("REJECTED") + NbSubs("KILLED")

\* subscribe(handler, event, sender=job): connect the handler to (job, event).
\* Handlers are numbered in the order they subscribe, and the handlers of one
\* run all watch the same event kind.
Subscribe(h, e) ==
    /\ TotalSubs < MaxSubs
    /\ \A e2 \in JobEvent \ {e} : subs[e2] = <<>>
    /\ receivers' = [receivers EXCEPT ![e] = Append(@, h)]
    /\ subs' = [subs EXCEPT ![e] = Append(@, <<h, Len(delivered[e])>>)]
    /\ UNCHANGED <<fields, params, delivered, seen, raised, world>>

BusTimes == 0 .. 1

NextBus ==
    \/ JobNext(BusTimes)
    \/ \E e \in JobEvent : Subscribe(TotalSubs + 1, e)

\* one job, observed: the job of the bus runs is fixed, its calls are not
InitBus == Init /\ subtime = 0 /\ res = 1

SpecBus == InitBus /\ [][NextBus]_vars

\* the handlers connected to (job, e)
Connected(e) == {receivers[e][i] : i \in DOMAIN receivers[e]}

\* Job.__dispatch of e while one of the handlers it calls subscribes handler
\* k (itself or a new handler) to (job, e).  The send comes first, so k is
\* connected while the receivers are being called; whether the running send
\* also calls k is the dispatcher library's choice.  The disconnection comes
\* after the send and takes every receiver (job, e) has by then, k included.
Resubscribing(e, k) ==
    /\ Len(delivered[e]) < MaxDispatch
    /\ TotalSubs < MaxSubs
    /\ receivers[e] # <<>>
    /\ \E called \in BOOLEAN :
          delivered' = [delivered EXCEPT ![e] =
              Append(@, IF called /\ k \notin Connected(e)
                        THEN Append(receivers[e], k)
                        ELSE receivers[e])]
    /\ seen' = View(e)
    /\ subs' = [subs EXCEPT ![e] = Append(@, <<k, Len(delivered[e])>>)]
    /\ UNCHANGED <<jid, sim, hostmons>>
    /\ Observe(e)
    /\ receivers' = IF crashed'
                    THEN [receivers EXCEPT ![e] =
                             Append(SelectSeq(@, LAMBDA h : h # k), k)]
                    ELSE [receivers EXCEPT ![e] = <<>>]

\* reject() while a handler of REJECTED subscribes k to REJECTED on the job
RejectResubscribing(k) ==
    /\ UNCHANGED <<fields, params>>
    /\ Resubscribing("REJECTED", k)
    /\ Return

\* submit() while a handler of SUBMITTED subscribes k to SUBMITTED on the job
SubmitResubscribing(t, k) ==
    IF state # "UNKNOWN" THEN Raise
    ELSE IF t < 0 THEN Raise
    ELSE /\ state' = "SUBMITTED"
         /\ subtime' = t
         /\ UNCHANGED <<allocation, start_time, stop_time, params>>
         /\ Resubscribing("SUBMITTED", k)
         /\ Return

\* the handlers a called handler may subscribe: one of those being called,
\* or the next new one
Subscribable(e) == Connected(e) \cup {TotalSubs + 1}

\* submit and reject calls on an observed job whose handlers may subscribe
NextResubscribe ==
    \/ \E e \in {"SUBMITTED", "REJECTED"} : Subscribe(TotalSubs + 1, e)
    \/ \E t \in BusTimes : Submit(t)
    \/ Reject
    \/ \E k \in Subscribable("REJECTED") : RejectResubscribing(k)
    \/ \E t \in BusTimes, k \in Subscribable("SUBMITTED") :
          SubmitResubscribing(t, k)

SpecResubscribe == InitBus /\ [][NextResubscribe]_vars

\* ------------------------------------------------- the job with a walltime
Walltimes == {None} \cup {Some(w) : w \in 1 .. MaxWall}

InitMetrics ==
    /\ JobCreated(0 .. MaxTime, 1 .. MaxRes, Walltimes)
    /\ MonitorsBuilt({}, {<<>>})

SpecMetrics == InitMetrics /\ [][Next]_vars

\* ----------------------------------------------- the simulation, monitored
job == <<fields, params, bus, raised>>

\* SimulatorEvent.SIMULATION_BEGINS: every constructed monitor (re)initializes
SimulationBegins ==
    /\ phase = "idle"
    /\ phase' = "running"
    /\ jm' = IF "JobMonitor" \in built THEN JobMonitorInit ELSE jm
    /\ sm' = IF "SchedulerMonitor" \in built
             THEN SchedulerMonitorInit ELSE sm
    /\ hm' = IF "HostMonitor" \in built
             THEN hm_on_simulation_begins(platform, now) ELSE hm
    /\ hs' = IF "HostStateSwitchMonitor" \in built
             THEN hs_on_simulation_begins(platform, now) ELSE hs
    /\ hp' = IF "HostPowerStateSwitchMonitor" \in built
             THEN hp_on_simulation_begins(platform, now) ELSE hp
    /\ ce' = IF "ConsumedEnergyMonitor" \in built
             THEN ce_on_simulation_begins(platform, now) ELSE ce
    /\ UNCHANGED <<job, jid, now, built, platform, nevents, crashed>>

\* SimulatorEvent.SIMULATION_ENDS
SimulationEnds ==
    /\ phase = "running"
    /\ phase' = "ended"
    /\ sm' = IF "SchedulerMonitor" \in built
             THEN sm_on_simulation_ends(sm, now) ELSE sm
    /\ hm' = IF "HostMonitor" \in built
             THEN hm_on_simulation_ends(hm, platform, now, 1) ELSE hm
    /\ crashed' = \/ crashed
                   \/ /\ "HostMonitor" \in built
                      /\ hm_on_simulation_ends_raises(hm, platform)
    /\ UNCHANGED <<job, jid, now, built, platform, nevents, jm, hs, hp, ce>>

\* the engine moves current_time forward to t
Advance(t) ==
    /\ phase # "ended"
    /\ t > now
    /\ now' = t
    /\ UNCHANGED <<job, jid, phase, built, platform, nevents, jobmons,
                   hostmons, ce, crashed>>

\* the engine constructs the next Job; the jobs before it get no more calls
CreateJob(s, r, w) ==
    /\ phase = "running"
    /\ jid < MaxJobs
    /\ jid' = jid + 1
    /\ state' = "UNKNOWN"
    /\ subtime' = s
    /\ allocation' = None
    /\ start_time' = None
    /\ stop_time' = None
    /\ res' = r
    /\ walltime' = w
    /\ profile' = profile
    /\ receivers' = [e \in JobEvent |-> <<>>]
    /\ subs' = [e \in JobEvent |-> <<>>]
    /\ UNCHANGED <<delivered, seen, raised, sim, jobmons, hostmons, ce,
                   crashed>>

\* Job(name, workload, res = r, profile = p, subtime = s), p being what the
\* profile expression evaluated to: an exception raised there or by
\* Job.__init__ leaves no new Job, otherwise the new Job replaces the old
NewJob(p, s, r) ==
    IF p \in {ValueError, TypeError} \/ ~IsJobProfile(p)
    THEN /\ raised' = TRUE
         /\ UNCHANGED <<fields, params, bus, world>>
    ELSE /\ raised' = FALSE
         /\ state' = "UNKNOWN"
         /\ subtime' = s
         /\ allocation' = None
         /\ start_time' = None
         /\ stop_time' = None
         /\ res' = r
         /\ walltime' = None
         /\ profile' = p
         /\ receivers' = [e \in JobEvent |-> <<>>]
         /\ subs' = [e \in JobEvent |-> <<>>]
         /\ UNCHANGED <<delivered, seen, world>>

\* ------------------------------------------------------ profiles, built
NotAProfile == [type |-> "str"]

Numbers(n) == [i \in 1 .. n |-> 0]

Bytes == (-1) .. MaxBytes

Labels == {"", "pfs"}

\* the lists handed to ComposedJobProfile: up to two elements, each a
\* profile or something else
Elements ==
    {DelayJobProfile(1), ParallelJobProfile(Numbers(1), Numbers(1)),
     NotAProfile}

ProfileLists ==
    {<<>>} \cup {<<a>> : a \in Elements}
           \cup {<<a, b>> : a \in Elements, b \in Elements}

CpuLens == 0 .. MaxCpu

ComLens == 0 .. (MaxCpu * MaxCpu + 1)

Repeats == (-1) .. MaxRepeat

\* a Job built on a delay profile
NewDelayJob(s, r) ==
    \E d \in 0 .. MaxBytes : NewJob(DelayJobProfile(d), s, r)

NewParallelJob(s, r) ==
    \E n \in CpuLens, k \in ComLens :
        NewJob(ParallelJobProfile(Numbers(n), Numbers(k)), s, r)

NewComposedJob(s, r) ==
    \E ps \in ProfileLists, n \in Repeats :
        NewJob(ComposedJobProfile(ps, n), s, r)

NewPFSJob(s, r) ==
    \E a \in Bytes, b \in Bytes, l \in Labels :
        NewJob(ParallelHomogeneousPFSJobProfile(a, b, l), s, r)

NewDataStagingJob(s, r) ==
    \E a \in Bytes, l \in Labels, m \in Labels :
        NewJob(DataStagingJobProfile(a, l, m), s, r)

NextProfiles ==
    \/ \E s \in 0 .. MaxTime, r \in 1 .. MaxRes : NewDelayJob(s, r)
    \/ \E s \in 0 .. MaxTime, r \in 1 .. MaxRes : NewParallelJob(s, r)
    \/ \E s \in 0 .. MaxTime, r \in 1 .. MaxRes : NewComposedJob(s, r)
    \/ \E s \in 0 .. MaxTime, r \in 1 .. MaxRes : NewPFSJob(s, r)
    \/ \E s \in 0 .. MaxTime, r \in 1 .. MaxRes : NewDataStagingJob(s, r)
    \/ \E s \in 0 .. MaxTime, r \in 1 .. MaxRes : NewJob(NotAProfile, s, r)

InitProfiles == JobCreated({0}, {1}, {None}) /\ MonitorsBuilt({}, {<<>>})

SpecProfiles == InitProfiles /\ [][NextProfiles]_vars

\* the monitors' handlers of host event ev sent by host h, run in the order
\* HostMonitor, HostStateSwitchMonitor, HostPowerStateSwitchMonitor,
\* ConsumedEnergyMonitor; a handler that raises ends the dispatch
HostDispatch(ev, h) ==
    LET hm_raises == "HostMonitor" \in built /\ hm_update_info_raises(hm, h)
        hs_raises == /\ ~hm_raises
                     /\ "HostStateSwitchMonitor" \in built
                     /\ ev = "STATE_CHANGED"
                     /\ get_key_from_state_raises(h.state)
    IN  /\ hm' = IF "HostMonitor" \in built
                 THEN hm_update_info(hm, h, now) ELSE hm
        /\ hs' = IF /\ "HostStateSwitchMonitor" \in built
                    /\ ev = "STATE_CHANGED"
                    /\ ~hm_raises
                 THEN hs_on_host_state_changed(hs, h, now) ELSE hs
        /\ hp' = IF /\ "HostPowerStateSwitchMonitor" \in built
                    /\ ~hm_raises
                    /\ ~hs_raises
                 THEN hp_on_host_power_state_changed(hp, h, now) ELSE hp
        /\ ce' = IF /\ "ConsumedEnergyMonitor" \in built
                    /\ ~hm_raises
                    /\ ~hs_raises
                 THEN ce_update_info(ce, platform', now, POWER_STATE_TYPE)
                 ELSE ce
        /\ crashed' = (crashed \/ hm_raises \/ hs_raises)

\* the engine moves the i-th host to state st, with power state p and power
\* w, and the host dispatches HostEvent.STATE_CHANGED
StateChanged(i, st, p, w) ==
    /\ phase = "running"
    /\ nevents < MaxEvents
    /\ st # platform[i].state
    /\ (p = None) <=> (platform[i].pstate = None)
    /\ platform' = [platform EXCEPT ![i] =
                        [@ EXCEPT !.state = st, !.pstate = p, !.power = w]]
    /\ nevents' = nevents + 1
    /\ HostDispatch("STATE_CHANGED", platform'[i])
    /\ UNCHANGED <<job, jid, now, phase, built, jobmons>>

\* the engine moves the i-th host to another computation power state p, with
\* power w, and the host dispatches COMPUTATION_POWER_STATE_CHANGED
PowerStateChanged(i, p, w) ==
    /\ phase = "running"
    /\ nevents < MaxEvents
    /\ p # None
    /\ platform[i].pstate # None
    /\ Val(p).type = "NORMAL"
    /\ Val(p).id # Val(platform[i].pstate).id
    /\ platform' = [platform EXCEPT ![i] =
                        [@ EXCEPT !.pstate = p, !.power = w]]
    /\ nevents' = nevents + 1
    /\ HostDispatch("COMPUTATION_POWER_STATE_CHANGED", platform'[i])
    /\ UNCHANGED <<job, jid, now, phase, built, jobmons>>

\* the host events, with states, power states and powers drawn from S, P, W
HostNext(S, P, W) ==
    \/ \E i \in DOMAIN platform, st \in S, p \in P, w \in W :
          StateChanged(i, st, p, w)
    \/ \E i \in DOMAIN platform, p \in P, w \in W :
          PowerStateChanged(i, p, w)

\* ---------------------------------------------------- the platform's hosts
PowerState(i, ty, w) == Some([id |-> i, type |-> ty, watt_full |-> w])

\* two computation power states and the two transition power states
NormalPStates == {PowerState(0, "NORMAL", 100), PowerState(1, "NORMAL", 50)}

SwitchingPStates ==
    {PowerState(2, "SWITCHING_OFF", 100), PowerState(3, "SWITCHING_ON", 100)}

Powers == {None, Some(100)}

\* the values current_time takes
HostClock == {0, 10, 15}

\* the platforms of n hosts with ids 0 .. n - 1 in platform order, states,
\* powers and power states drawn from S, W, P
Platforms(n, S, W, P) ==
    {pl \in [1 .. n -> [id : 0 .. (n - 1), state : S, power : W, pstate : P]] :
        \A i \in 1 .. n : pl[i].id = i - 1}

\* ------------------------------- HostMonitor and HostStateSwitchMonitor
NextHosts ==
    /\ ~crashed
    /\ \/ SimulationBegins
       \/ SimulationEnds
       \/ \E t \in HostClock : Advance(t)
       \/ HostNext(HostState, NormalPStates, Powers)

InitHosts ==
    /\ JobCreated({0}, {1}, {None})
    /\ MonitorsBuilt({"HostMonitor", "HostStateSwitchMonitor"},
                     UNION {Platforms(n, {"IDLE", "COMPUTING"}, Powers,
                                      {PowerState(0, "NORMAL", 100)}) :
                            n \in 1 .. MaxHosts})

SpecHosts == InitHosts /\ [][NextHosts]_vars

\* ------------------------------------- HostPowerStateSwitchMonitor observed
NextPowerStates ==
    /\ ~crashed
    /\ \/ SimulationBegins
       \/ SimulationEnds
       \/ \E t \in HostClock : Advance(t)
       \/ HostNext({"IDLE", "COMPUTING"},
                   NormalPStates \cup SwitchingPStates, {None})

InitPowerStates ==
    /\ JobCreated({0}, {1}, {None})
    /\ MonitorsBuilt({"HostPowerStateSwitchMonitor"},
                     UNION {Platforms(n, {"IDLE"}, {None},
                                      {None} \cup NormalPStates) :
                            n \in 1 .. MaxGrouped})

SpecPowerStates == InitPowerStates /\ [][NextPowerStates]_vars

\* the engine's calls in the order of the job lifecycle, each made in the
\* state it is meant for, with time arguments drawn from T
LifecycleNext(T) ==
    \/ state = "UNKNOWN" /\ \E t \in T : Submit(t)
    \/ state = "SUBMITTED" /\ \E hosts \in HostLists : Allocate(hosts)
    \/ state = "SUBMITTED" /\ Reject
    \/ state = "ALLOCATED" /\ \E t \in T : Start(t)
    \/ state = "RUNNING" /\ \E t \in T : Kill(t)
    \/ state = "RUNNING" /\ \E t \in T, st \in Completed3 : Terminate(t, st)

\* ------------------------------------- a host state outside HostState
UndefinedState == "UNDEFINED"

NextUndefined ==
    /\ ~crashed
    /\ \/ SimulationBegins
       \/ SimulationEnds
       \/ \E t \in HostClock : Advance(t)
       \/ HostNext({"IDLE", "COMPUTING", UndefinedState}, NormalPStates,
                   {Some(100)})

InitUndefined ==
    /\ JobCreated({0}, {1}, {None})
    /\ \E B \in {{"HostMonitor"}, {"HostStateSwitchMonitor"}} :
          MonitorsBuilt(B,
              UNION {Platforms(n, {"IDLE", "COMPUTING"}, {Some(100)},
                               {PowerState(0, "NORMAL", 100)}) :
                     n \in 1 .. MaxHosts})

SpecUndefined == InitUndefined /\ [][NextUndefined]_vars

\* ------------------------------------------- ConsumedEnergyMonitor observed
NextEnergy ==
    /\ ~crashed
    /\ \/ SimulationBegins
       \/ SimulationEnds
       \/ \E t \in HostClock : Advance(t)
       \/ /\ Len(ce.info["time"]) < MaxRows
          /\ HostNext({"IDLE", "COMPUTING"}, {None} \cup NormalPStates, Powers)
       \/ /\ phase = "running"
          /\ Len(ce.info["time"]) < MaxRows
          /\ LifecycleNext({now})

InitEnergy ==
    /\ JobCreated({0}, {1}, {None})
    /\ MonitorsBuilt({"ConsumedEnergyMonitor"},
                     UNION {Platforms(n, {"IDLE"}, {Some(100)},
                                      {None, PowerState(0, "NORMAL", 100)}) :
                            n \in 1 .. MaxHosts})

SpecEnergy == InitEnergy /\ [][NextEnergy]_vars

\* ----------------------- HostMonitor and ConsumedEnergyMonitor side by side
InitAccounting ==
    /\ JobCreated({0}, {1}, {None})
    /\ MonitorsBuilt({"HostMonitor", "ConsumedEnergyMonitor"},
                     UNION {Platforms(n, {"IDLE"}, {Some(100)},
                                      {None, PowerState(0, "NORMAL", 100)}) :
                            n \in 1 .. MaxHosts})

SpecAccounting == InitAccounting /\ [][NextEnergy]_vars

\* ------------------------------------------------------ JobMonitor observed
JobTimes == 0 .. 1

NextJobMonitor ==
    /\ ~crashed
    /\ \/ SimulationBegins
       \/ SimulationEnds
       \/ /\ phase = "running"
          /\ Len(jm["job_id"]) < MaxRows
          /\ JobNext(JobTimes)
       \/ \E w \in Walltimes : CreateJob(0, 1, w)

InitJobMonitor ==
    /\ JobCreated({0}, {1}, Walltimes)
    /\ MonitorsBuilt({"JobMonitor"}, {<<>>})

SpecJobMonitor == InitJobMonitor /\ [][NextJobMonitor]_vars

\* ------------------------------------------------ SchedulerMonitor observed
NextScheduler ==
    /\ ~crashed
    /\ \/ SimulationBegins
       \/ SimulationEnds
       \/ phase = "running" /\ LifecycleNext(0 .. MaxTime)
       \/ \E r \in 1 .. MaxRes, w \in Walltimes : CreateJob(0, r, w)

InitScheduler ==
    /\ JobCreated({0}, 1 .. MaxRes, Walltimes)
    /\ MonitorsBuilt({"SchedulerMonitor"}, {<<>>})

SpecScheduler == InitScheduler /\ [][NextScheduler]_vars

\* --------------------------- SchedulerMonitor, the job's calls in any order
NextCounters ==
    /\ ~crashed
    /\ \/ SimulationBegins
       \/ SimulationEnds
       \/ phase = "running" /\ JobNext(JobTimes)
       \/ \E w \in Walltimes : CreateJob(0, 1, w)

InitCounters ==
    /\ JobCreated({0}, {1}, Walltimes)
    /\ MonitorsBuilt({"SchedulerMonitor"}, {<<>>})

SpecCounters == InitCounters /\ [][NextCounters]_vars

\* =================================================================== claims
Terminal ==
    {"COMPLETED_SUCCESSFULLY", "COMPLETED_FAILED",
     "COMPLETED_WALLTIME_REACHED", "COMPLETED_KILLED", "REJECTED"}

\* a step in which event kind e is dispatched
Fires(e) == Len(delivered'[e]) = Len(delivered[e]) + 1

\* C1: once allocation, start_time or stop_time holds a value, no later
\* privileged operation changes it (each of the three is set at most once).
C1_SetAtMostOnce ==
    [][/\ (allocation # None => allocation' = allocation)
       /\ (start_time # None => start_time' = start_time)
       /\ (stop_time # None => stop_time' = stop_time)]_vars

\* C2: the COMPLETED_* states and REJECTED are terminal: once the job is in
\* one of them no privileged operation changes its state.
C2_TerminalStatesStay ==
    [][(state \in Terminal) => (state' = state)]_vars

\* C3: reject() moves the job to REJECTED: the handlers of the REJECTED event
\* see state REJECTED, and the job is in REJECTED right after the call.
C3_RejectSetsRejected ==
    [][Reject => (seen'.state = "REJECTED" /\ state' = "REJECTED")]_vars

\* C4: kill and terminate are transitions out of RUNNING only: on a job that
\* is not RUNNING each raises; terminate raises on a final state outside the
\* three completion states; both raise when current_time < start_time.
C4_KillTerminateOnlyFromRunning ==
    [][\A t \in TimeArgs :
         /\ (Kill(t) /\ state # "RUNNING") => raised'
         /\ (Kill(t) /\ start_time # None /\ t < Val(start_time)) => raised'
         /\ \A st \in JobState :
              /\ (Terminate(t, st) /\ state # "RUNNING") => raised'
              /\ (Terminate(t, st) /\ st \notin Completed3) => raised'
              /\ (Terminate(t, st) /\ start_time # None
                    /\ t < Val(start_time)) => raised']_vars

\* C5: each JobEvent kind is dispatched at most once with the job as sender.
C5_EachKindAtMostOnce ==
    \A e \in JobEvent : Len(delivered[e]) <= 1

\* C6: allocate(hosts) raises when the job already has an allocation or when
\* len(hosts) # res, and otherwise records the allocation, sets ALLOCATED and
\* dispatches ALLOCATED; a recorded allocation always has length res.
C6_Allocate ==
    [][/\ \A hosts \in HostLists :
            Allocate(hosts) =>
              IF allocation # None \/ Len(hosts) # res
              THEN raised' /\ UNCHANGED <<fields, bus>>
              ELSE /\ ~raised'
                   /\ allocation' = Some(hosts)
                   /\ state' = "ALLOCATED"
                   /\ Fires("ALLOCATED")
                   /\ seen'.event = "ALLOCATED"
       /\ (allocation' # None => Len(Val(allocation')) = res')]_vars

C6_Witness ==
    /\ seen.event = "ALLOCATED"
    /\ ~raised
    /\ state = "ALLOCATED"
    /\ res = 2
    /\ allocation = Some(<<0, 1>>)

\* C7: start(current_time) succeeds only from ALLOCATED with start_time unset
\* and current_time >= subtime; it then sets start_time and RUNNING and
\* dispatches STARTED; otherwise it raises.  No job is started without a
\* prior successful allocate.
C7_Start ==
    [][/\ \A t \in TimeArgs :
            Start(t) =>
              IF state = "ALLOCATED" /\ start_time = None /\ t >= subtime
              THEN /\ ~raised'
                   /\ start_time' = Some(t)
                   /\ state' = "RUNNING"
                   /\ Fires("STARTED")
                   /\ seen'.event = "STARTED"
              ELSE raised' /\ UNCHANGED <<fields, bus>>
       /\ (start_time' # None =>
              allocation' # None /\ Len(delivered'["ALLOCATED"]) >= 1)]_vars

C7_Witness ==
    /\ seen.event = "STARTED"
    /\ ~raised
    /\ state = "RUNNING"
    /\ subtime = 1
    /\ start_time = Some(2)

\* C8: submit(subtime) succeeds only from UNKNOWN with subtime >= 0; it then
\* sets SUBMITTED, replaces subtime and dispatches SUBMITTED; a second
\* submit, or a submit after allocate or start, raises.
C8_Submit ==
    [][\A t \in TimeArgs :
         /\ Submit(t) =>
              IF state = "UNKNOWN" /\ t >= 0
              THEN /\ ~raised'
                   /\ state' = "SUBMITTED"
                   /\ subtime' = t
                   /\ Fires("SUBMITTED")
                   /\ seen'.event = "SUBMITTED"
              ELSE raised' /\ UNCHANGED <<fields, bus>>
         /\ (/\ Submit(t)
             /\ \/ Len(delivered["SUBMITTED"]) >= 1
                \/ allocation # None
                \/ start_time # None) => raised']_vars

C8_Witness ==
    /\ seen.event = "SUBMITTED"
    /\ ~raised
    /\ state = "SUBMITTED"
    /\ subtime = 2

\* the handlers that subscribed to kind e after n dispatches of e and before
\* the next one, in subscription order
EpochHandlers(e, n) ==
    LET s == SelectSeq(subs[e], LAMBDA x : x[2] = n)
    IN  [i \in 1 .. Len(s) |-> s[i][1]]

\* C9: one-shot dispatch: the i-th dispatch of a kind invokes, once each and
\* in subscription order, exactly the handlers subscribed since the previous
\* dispatch of that kind; they are then disconnected, and a handler that
\* subscribes after a dispatch is invoked by the next one only.
C9_OneShotDispatch ==
    \A e \in JobEvent :
        /\ \A i \in 1 .. Len(delivered[e]) :
              delivered[e][i] = EpochHandlers(e, i - 1)
        /\ receivers[e] = EpochHandlers(e, Len(delivered[e]))

C9_Witness ==
    \E e \in JobEvent :
        /\ Len(delivered[e]) = 2
        /\ delivered[e][1] = <<1, 2>>
        /\ delivered[e][2] = <<3>>
        /\ receivers[e] = <<>>

\* C10: waiting_time is undefined iff start_time is unset and else equals
\* start_time - subtime; runtime is undefined iff start_time or stop_time is
\* unset and else equals stop_time - start_time; turnaround_time is undefined
\* iff one of the two is and else equals their sum, stop_time - subtime.
C10_DerivedTimes ==
    /\ (waiting_time = None) <=> (start_time = None)
    /\ (start_time # None) =>
          (waiting_time = Some(Val(start_time) - subtime))
    /\ (runtime = None) <=> (start_time = None \/ stop_time = None)
    /\ (start_time # None /\ stop_time # None) =>
          (runtime = Some(Val(stop_time) - Val(start_time)))
    /\ (turnaround_time = None) <=> (waiting_time = None \/ runtime = None)
    /\ (waiting_time # None /\ runtime # None) =>
          /\ turnaround_time = Some(Val(waiting_time) + Val(runtime))
          /\ turnaround_time = Some(Val(stop_time) - subtime)

C10_Witness ==
    /\ stop_time # None
    /\ waiting_time = Some(1)
    /\ runtime = Some(1)
    /\ turnaround_time = Some(2)

\* q is the number a / b: a fraction with q * b = a
IsQuotient(q, a, b) == q[2] > 0 /\ q[1] * b = a * q[2]

\* q is the number max(1, a / b), for b > 0
IsFlooredQuotient(q, a, b) ==
    /\ q[2] > 0
    /\ q[1] >= q[2]
    /\ IF a >= b THEN IsQuotient(q, a, b) ELSE q = Num(1)

\* C11: for a finished job with runtime > 0, slowdown is
\* max(1, turnaround_time / runtime) and per_processor_slowdown is
\* max(1, turnaround_time / (res * runtime)), and both are at least 1.
C11_SlowdownAtLeastOne ==
    (is_finished /\ runtime # None /\ Val(runtime) > 0) =>
        /\ slowdown # None
        /\ IsFlooredQuotient(Val(slowdown), Val(turnaround_time),
                             Val(runtime))
        /\ per_processor_slowdown # None
        /\ IsFlooredQuotient(Val(per_processor_slowdown),
                             Val(turnaround_time), res * Val(runtime))

C11_Witness ==
    /\ is_finished
    /\ res = 2
    /\ waiting_time = Some(1)
    /\ runtime = Some(1)
    /\ slowdown = Some(Num(2))
    /\ per_processor_slowdown = Some(Num(1))

\* C12: stretch is undefined while waiting_time is undefined; otherwise it
\* is the number waiting_time / walltime when walltime is set, else the
\* number waiting_time / runtime when runtime is defined, else undefined.
C12_Stretch ==
    /\ (waiting_time = None) => (stretch = None)
    /\ (waiting_time # None /\ walltime # None) =>
          /\ stretch # None
          /\ IsQuotient(Val(stretch), Val(waiting_time), Val(walltime))
    /\ (waiting_time # None /\ walltime = None /\ runtime # None) =>
          /\ stretch # None
          /\ IsQuotient(Val(stretch), Val(waiting_time), Val(runtime))
    /\ (waiting_time # None /\ walltime = None /\ runtime = None) =>
          (stretch = None)

\* the job has been driven submit -> allocate -> start and nothing else
DrivenToRunning ==
    /\ jid = 1
    /\ state = "RUNNING"
    /\ Len(delivered["SUBMITTED"]) = 1
    /\ Len(delivered["ALLOCATED"]) = 1
    /\ Len(delivered["STARTED"]) = 1
    /\ delivered["COMPLETED"] = <<>>
    /\ delivered["REJECTED"] = <<>>
    /\ delivered["KILLED"] = <<>>

\* the last entry of column c after the step
Recorded(c) == jm'[c][Len(jm'[c])]

\* C13: for a job driven submit -> allocate -> start -> terminate, the
\* COMPLETED dispatch appends one record to JobMonitor that carries the
\* job's id, workload, profile name, subtime, res, walltime, the final
\* state passed to terminate, success = 1 iff COMPLETED_SUCCESSFULLY, the
\* start and stop times, execution, waiting and turnaround times, the
\* stretch of the stretch formula, the allocated host ids and
\* consumed_energy = -1.
C13_JobMonitorRoundTrip ==
    [][\A t \in JobTimes, st \in Completed3 :
         (/\ phase = "running"
          /\ DrivenToRunning
          /\ t >= Val(start_time)
          /\ Terminate(t, st)) =>
            /\ \A c \in ColumnSet : Len(jm'[c]) = Len(jm[c]) + 1
            /\ Recorded("job_id") = jid
            /\ Recorded("workload_name") = WorkloadName
            /\ Recorded("profile") = ProfileName
            /\ Recorded("submission_time") = subtime
            /\ Recorded("requested_number_of_resources") = res
            /\ Recorded("requested_time") = walltime
            /\ Recorded("final_state") = st
            /\ Recorded("success") =
                  (IF st = "COMPLETED_SUCCESSFULLY" THEN 1 ELSE 0)
            /\ Recorded("starting_time") = start_time
            /\ Recorded("finish_time") = Some(t)
            /\ Recorded("execution_time") = Some(t - Val(start_time))
            /\ Recorded("waiting_time") = Some(Val(start_time) - subtime)
            /\ Recorded("turnaround_time") = Some(t - subtime)
            /\ Recorded("stretch") # None
            /\ IsQuotient(Val(Recorded("stretch")),
                          Val(start_time) - subtime,
                          IF walltime # None THEN Val(walltime)
                          ELSE t - Val(start_time))
            /\ Recorded("allocated_resources") =
                  Some(ProcSet(Val(allocation)))
            /\ Recorded("consumed_energy") = -1]_vars

\* C14: once the simulation has begun, the 16 columns of JobMonitor have
\* one length, the number of COMPLETED plus REJECTED dispatches so far, and
\* a step only appends to them.
C14_JobMonitorColumns ==
    [][(phase' # "idle") =>
         /\ \A c \in ColumnSet :
               Len(jm'[c]) = Len(delivered'["COMPLETED"])
                             + Len(delivered'["REJECTED"])
         /\ (phase # "idle") =>
               \A c \in ColumnSet :
                   /\ Len(jm'[c]) >= Len(jm[c])
                   /\ SubSeq(jm'[c], 1, Len(jm[c])) = jm[c]]_vars

\* q2 is the number q + r, by cross-multiplication
IsSum(q2, q, r) ==
    /\ q2[2] > 0 /\ q[2] > 0 /\ r[2] > 0
    /\ q2[1] * q[2] * r[2] = (q[1] * r[2] + r[1] * q[2]) * q2[2]

\* q2 is the larger of the numbers q and r
IsLarger(q2, q, r) ==
    /\ q2 \in {q, r}
    /\ q[1] * q2[2] <= q2[1] * q[2]
    /\ r[1] * q2[2] <= q2[1] * r[2]

\* q2 is the number q / n
IsMean(q2, q, n) ==
    q2[2] > 0 /\ q[2] > 0 /\ q2[1] * q[2] * n = q[1] * q2[2]

Means ==
    {"mean_waiting_time", "mean_turnaround_time", "mean_stretch",
     "mean_slowdown", "mean_pp_slowdown"}

Maxima ==
    {"max_waiting_time", "max_turnaround_time", "max_stretch", "max_slowdown"}

\* the metric of job j that summary field k accumulates
MetricOf(k, j) ==
    CASE k \in {"mean_waiting_time", "max_waiting_time"} ->
             <<Val(j.waiting_time), 1>>
      [] k \in {"mean_turnaround_time", "max_turnaround_time"} ->
             <<Val(j.turnaround_time), 1>>
      [] k \in {"mean_stretch", "max_stretch"} -> Val(j.stretch)
      [] k \in {"mean_slowdown", "max_slowdown"} -> Val(j.slowdown)
      [] k = "mean_pp_slowdown" -> Val(j.per_processor_slowdown)

\* C15: while the simulation runs, a step that counts a job in
\* nb_jobs_finished adds each of the job's metrics to its running sum and
\* raises each maximum to it, and no other step touches sums or maxima (both
\* start at 0); the SIMULATION_ENDS step turns each sum into the sum divided
\* by max(1, nb_jobs_finished) and leaves maxima and count alone; with no
\* finished job every mean is 0 and nothing is raised
C15_SchedulerSummary ==
    [][/\ (phase = "running" /\ phase' = "running") =>
             \E j \in {Sender'} :
                 IF sm'.nb_jobs_finished = sm.nb_jobs_finished + 1
                 THEN /\ \A k \in Means : IsSum(sm'[k], sm[k], MetricOf(k, j))
                      /\ \A k \in Maxima :
                             IsLarger(sm'[k], sm[k], MetricOf(k, j))
                 ELSE /\ sm'.nb_jobs_finished = sm.nb_jobs_finished
                      /\ \A k \in Means \cup Maxima : sm'[k] = sm[k]
       /\ (phase = "idle" /\ phase' = "running") =>
             /\ sm'.nb_jobs_finished = 0
             /\ \A k \in Means \cup Maxima : sm'[k] = <<0, 1>>
       /\ (phase = "running" /\ phase' = "ended") =>
             /\ sm'.nb_jobs_finished = sm.nb_jobs_finished
             /\ \A k \in Maxima : sm'[k] = sm[k]
             /\ \A k \in Means :
                    IsMean(sm'[k], sm[k],
                           IF sm.nb_jobs_finished = 0 THEN 1
                           ELSE sm.nb_jobs_finished)
             /\ sm.nb_jobs_finished = 0 =>
                    /\ \A k \in Means : sm'[k] = <<0, 1>>
                    /\ ~crashed'
      ]_vars

\* two finished jobs (waiting 1 and 0, runtime 1 each, no walltime) and the
\* summary after SIMULATION_ENDS: mean stretch 1/2, mean slowdown 3/2
C15_Witness ==
    /\ phase = "ended"
    /\ sm.nb_jobs_finished = 2
    /\ sm.mean_stretch = <<1, 2>>
    /\ sm.max_stretch = <<1, 1>>
    /\ sm.mean_slowdown = <<3, 2>>
    /\ sm.max_slowdown = <<2, 1>>
    /\ sm.mean_waiting_time = <<1, 2>>
    /\ sm.max_turnaround_time = <<2, 1>>

\* the sum f[1] + ... + f[n]
RECURSIVE SumTo(_, _)
SumTo(f, n) == IF n = 0 THEN 0 ELSE f[n] + SumTo(f, n - 1)

\* the hosts a step observes: every host on the flush, else the host whose
\* event is dispatched
ObservedHosts ==
    IF phase' = "ended" THEN DOMAIN platform
    ELSE {i \in DOMAIN platform : platform'[i] # platform[i]}

\* what the step adds for the hosts it observes that were in a state of S:
\* the time since each one's last observation, and that time multiplied
\* by the power the host had (0 if none)
ElapsedIn(S) ==
    SumTo([i \in DOMAIN platform |->
             IF i \in ObservedHosts /\ platform[i].state \in S
             THEN now - hm.last[platform[i].id][1] ELSE 0], Len(platform))

EnergyIn(S) ==
    SumTo([i \in DOMAIN platform |->
             IF i \in ObservedHosts /\ platform[i].state \in S
             THEN (now - hm.last[platform[i].id][1])
                  * (IF platform[i].power = None THEN 0
                     ELSE Val(platform[i].power))
             ELSE 0], Len(platform))

TimeBucket ==
    [IDLE |-> "time_idle", COMPUTING |-> "time_computing",
     SWITCHING_OFF |-> "time_switching_off",
     SWITCHING_ON |-> "time_switching_on", SLEEPING |-> "time_sleeping"]

\* C16: on a host event or on the flush at time now, the time since the
\* host's last observation goes to the bucket of the state the host was in
\* over that interval, that time multiplied by the power it had (or 0) goes
\* to consumed_joules, and to energy_waste as well exactly when that state
\* was IDLE, SWITCHING_OFF or SWITCHING_ON
C16_IntervalToPreviousState ==
    [][phase = "running" =>
          /\ \A st \in HostState :
                 hm'.info[TimeBucket[st]] =
                     hm.info[TimeBucket[st]] + ElapsedIn({st})
          /\ hm'.info.consumed_joules =
                 hm.info.consumed_joules + EnergyIn(HostState)
          /\ hm'.info.energy_waste =
                 hm.info.energy_waste
                 + EnergyIn({"IDLE", "SWITCHING_OFF", "SWITCHING_ON"})
      ]_vars

\* one host at 100 W, COMPUTING on [0, 10] then IDLE on [10, 15]
C16_Witness ==
    /\ phase = "ended"
    /\ Len(platform) = 1
    /\ hs.info["time"] = <<0, 10>>
    /\ now = 15
    /\ hm.info.time_computing = 10
    /\ hm.info.time_idle = 5
    /\ hm.info.consumed_joules = 1500
    /\ hm.info.energy_waste = 500

\* C17: once the end handler has run at time T, the five time buckets sum
\* to the number of hosts times T minus the time of SIMULATION_BEGINS (the
\* timestamp of the first row HostStateSwitchMonitor recorded)
C17_FlushAccountsAllTime ==
    phase = "ended" =>
        hm.info.time_idle + hm.info.time_computing
        + hm.info.time_switching_off + hm.info.time_switching_on
        + hm.info.time_sleeping
        = Len(platform) * (now - hs.info["time"][1])

\* two hosts, a begin at 10, two host events, an end at 15
C17_Witness ==
    /\ phase = "ended"
    /\ Len(platform) = 2
    /\ nevents = 2
    /\ hs.info["time"][1] = 10
    /\ now = 15
    /\ hm.info.time_sleeping > 0

\* row r of the series of HostStateSwitchMonitor value m
SeriesRow(m, r) == [k \in SeriesKeys |-> m.info[k][r]]

StateCount ==
    [IDLE |-> "nb_idle", COMPUTING |-> "nb_computing",
     SLEEPING |-> "nb_sleeping", SWITCHING_OFF |-> "nb_switching_off",
     SWITCHING_ON |-> "nb_switching_on"]

\* row r with the count of state a lowered and that of state b raised by one
Moved(r, a, b) ==
    [k \in SeriesKeys |->
        IF k = StateCount[a] THEN r[k] - 1
        ELSE IF k = StateCount[b] THEN r[k] + 1
        ELSE r[k]]

\* C18: a host state change at the last row's timestamp rewrites that row in
\* place (the seed row included), a change at a later time appends one row,
\* a copy of the last one with the new timestamp; either way the row then
\* has the count of the host's old state lowered and that of its new state
\* raised by one, the rows before it are untouched, and no two rows share a
\* timestamp
C18_CompactsByTimestamp ==
    [][\A i \in DOMAIN platform :
          (phase = "running" /\ i \in DOMAIN platform'
             /\ platform'[i].state # platform[i].state) =>
              LET n == Len(hs.info["time"])
                  n2 == Len(hs'.info["time"])
                  last == SeriesRow(hs, n)
                  old == platform[i].state
                  new == platform'[i].state
              IN  /\ \A k \in SeriesKeys : Len(hs'.info[k]) = n2
                  /\ n2 = IF last["time"] = now THEN n ELSE n + 1
                  /\ \A r \in 1 .. (n2 - 1) :
                         SeriesRow(hs', r) = SeriesRow(hs, r)
                  /\ SeriesRow(hs', n2) =
                         Moved([last EXCEPT !["time"] = now], old, new)
                  /\ \A r1, r2 \in 1 .. n2 :
                         r1 < r2 => hs'.info["time"][r1] < hs'.info["time"][r2]
      ]_vars

\* two hosts leave IDLE at the same time 10, after a begin at 0: one row
\* added, with both changes in it
C18_Witness ==
    /\ nevents = 2
    /\ Len(platform) = 2
    /\ hs.info["time"] = <<0, 10>>
    /\ hs.info["nb_idle"] = <<2, 0>>
    /\ hs.info["nb_computing"] = <<0, 1>>
    /\ hs.info["nb_sleeping"] = <<0, 1>>

\* the indices of the hosts of the platform that have a power state
Rated == {i \in DOMAIN platform : platform[i].pstate # None}

\* C19: at SIMULATION_BEGINS the monitor records one row per distinct power
\* state id among the hosts that have a power state, and the row of an id
\* holds every host with that id, adjacent in platform order or not
C19_OneSeedRowPerPState ==
    [][(phase = "idle" /\ phase' = "running") =>
          LET ids == {Val(platform[i].pstate).id : i \in Rated}
              rows == DOMAIN hp'.info.new_pstate
          IN  /\ Cardinality(rows) = Cardinality(ids)
              /\ \A p \in ids : \E r \in rows :
                     /\ hp'.info.new_pstate[r] = p
                     /\ ProcSetFromStr(hp'.info.machine_id[r]) =
                            {platform[i].id :
                                i \in {x \in Rated :
                                          Val(platform[x].pstate).id = p}}
      ]_vars

\* the code of a power state: its id if NORMAL, -1 / -2 if switching on / off
CodeOf(ps) ==
    CASE ps.type = "NORMAL" -> ps.id
      [] ps.type = "SWITCHING_ON" -> -1
      [] ps.type = "SWITCHING_OFF" -> -2

\* C20: on a host event, a host whose power state id is the one it had
\* records nothing; otherwise the host joins the last row when that row has
\* the current time and the code of the new power state, else a row (time,
\* {host}, code) is appended; the three columns have equal length
C20_PowerStateEventRule ==
    [][\A i \in DOMAIN platform :
          (phase = "running" /\ i \in DOMAIN platform'
             /\ platform'[i] # platform[i]) =>
              LET h == platform'[i]
                  n == Len(hp.info.time)
                  merged == [hp.info EXCEPT !.machine_id[n] = hp'.info.machine_id[n]]
              IN  /\ Len(hp'.info.time) = Len(hp'.info.machine_id)
                  /\ Len(hp'.info.time) = Len(hp'.info.new_pstate)
                  /\ IF h.pstate = None THEN hp'.info = hp.info
                     ELSE IF Val(h.pstate).id = Val(platform[i].pstate).id
                          THEN hp'.info = hp.info
                     ELSE IF /\ n > 0
                             /\ hp.info.time[n] = now
                             /\ hp.info.new_pstate[n] = CodeOf(Val(h.pstate))
                          THEN /\ hp'.info = merged
                               /\ ProcSetFromStr(hp'.info.machine_id[n]) =
                                      ProcSetFromStr(hp.info.machine_id[n])
                                      \cup {h.id}
                     ELSE /\ hp'.info.time = Append(hp.info.time, now)
                          /\ hp'.info.new_pstate =
                                 Append(hp.info.new_pstate,
                                        CodeOf(Val(h.pstate)))
                          /\ Len(hp'.info.machine_id) = n + 1
                          /\ \A r \in 1 .. n :
                                 hp'.info.machine_id[r] = hp.info.machine_id[r]
                          /\ ProcSetFromStr(hp'.info.machine_id[n + 1]) =
                                 {h.id}
      ]_vars

\* two hosts begin switching off at the same time: the second one joined
\* the row of the first
C20_Witness ==
    /\ nevents = 2
    /\ Len(hp.info.time) > 1
    /\ hp.info.new_pstate[Len(hp.info.time)] = -2
    /\ Cardinality(ProcSetFromStr(hp.info.machine_id[Len(hp.info.time)])) = 2

\* the last row of the ConsumedEnergyMonitor value m
EnergyRow(m) == [c \in EnergyColumns |-> m.info[c][Len(m.info[c])]]

\* the step makes ConsumedEnergyMonitor handle an event: a job's STARTED or
\* COMPLETED, or a host event
EnergyEvent ==
    /\ phase = "running"
    /\ \/ Len(delivered'["STARTED"]) > Len(delivered["STARTED"])
       \/ Len(delivered'["COMPLETED"]) > Len(delivered["COMPLETED"])
       \/ nevents' > nevents

\* C21: every event ConsumedEnergyMonitor handles appends one row whose
\* energy is the previous row's energy (0 for the first row) plus, summed
\* over all hosts, the time since the host's last recorded time multiplied
\* by its last recorded power (or 0); every host's snapshot becomes (now,
\* power, pstate); energy and time never decrease down the rows
C21_EnergyCumulative ==
    [][EnergyEvent =>
          LET n == Len(ce.info["energy"])
              before == IF n = 0 THEN 0 ELSE ce.info["energy"][n]
              spent == SumTo([i \in DOMAIN platform |->
                                LET l == ce.last[platform[i].id]
                                IN  (now - l[1])
                                    * (IF l[2] = None THEN 0 ELSE Val(l[2]))],
                             Len(platform))
          IN  /\ \A c \in EnergyColumns :
                     /\ Len(ce'.info[c]) = n + 1
                     /\ \A r \in 1 .. n : ce'.info[c][r] = ce.info[c][r]
              /\ EnergyRow(ce')["time"] = now
              /\ EnergyRow(ce')["energy"] = before + spent
              /\ EnergyRow(ce')["energy"] >= before
              /\ \A r \in 1 .. n : ce.info["time"][r] <= now
              /\ \A i \in DOMAIN platform' :
                     ce'.last[platform'[i].id] =
                         <<now, platform'[i].power, platform'[i].pstate>>
      ]_vars

\* one or two hosts at 100 W: a host event at 10 after a begin at 0, then a
\* job started at 15
C21_Witness ==
    /\ ce.info["time"] = <<10, 15>>
    /\ ce.info["event_type"] = <<"p", "s">>
    /\ ce.info["energy"][1] = 1000 * Len(platform)
    /\ ce.info["energy"][2] > ce.info["energy"][1]

\* C22: the row appended for a host event has wattmin equal to the sum of
\* watt_full over the power states the hosts have after the event and
\* epower equal to the sum of the powers they have after the event
C22_RowReflectsNewState ==
    [][(phase = "running" /\ nevents' > nevents) =>
          /\ EnergyRow(ce')["wattmin"] =
                 SumTo([i \in DOMAIN platform' |->
                          IF platform'[i].pstate = None THEN 0
                          ELSE Val(platform'[i].pstate).watt_full],
                       Len(platform'))
          /\ EnergyRow(ce')["epower"] =
                 SumTo([i \in DOMAIN platform' |->
                          IF platform'[i].power = None THEN 0
                          ELSE Val(platform'[i].power)],
                       Len(platform'))
      ]_vars

\* C23: HostMonitor raises when the state it has to put in a time bucket
\* (the one recorded at the observed host's last observation) is none of
\* the five, on a host event (and then records nothing) and on the flush;
\* HostStateSwitchMonitor raises when the state a host changed to is none of
\* the five
C23_UndefinedStateRaises ==
    [][phase = "running" =>
          /\ ("HostMonitor" \in built
                /\ \E i \in ObservedHosts :
                      hm.last[platform[i].id][3] \notin HostState)
                => (crashed' /\ (phase' = "running" => hm' = hm))
          /\ ("HostStateSwitchMonitor" \in built
                /\ \E i \in DOMAIN platform :
                      /\ platform'[i].state # platform[i].state
                      /\ platform'[i].state \notin HostState)
                => crashed'
      ]_vars

\* HostMonitor raised on a host it had recorded in the undefined state
C23_Witness ==
    /\ crashed
    /\ built = {"HostMonitor"}
    /\ \E i \in DOMAIN platform : hm.last[platform[i].id][3] = UndefinedState

\* building a Job on what a profile expression gave, p: when the
\* expression's constraint holds (ok) a Job owning a profile results, when it
\* does not the call raises and no object is made
Outcome(p, ok) ==
    NewJob(p, subtime', res') =>
        IF ok THEN ~raised' /\ profile' = p /\ IsJobProfile(profile')
        ELSE raised' /\ profile' = profile /\ (state' = state)

\* C24: a profile constructor raises exactly when its constraint is
\* violated: Parallel needs len(com) = len(cpu)^2; Composed needs repeat >= 1
\* and JobProfile elements only; ParallelHomogeneousPFS needs both byte
\* counts >= 0 and a non-empty storage; DataStaging needs nb_bytes >= 0 and
\* non-empty src and dest; a Job built on a non-JobProfile raises; so the
\* composed profile a Job owns has repeat >= 1
C24_ProfileValidation ==
    [][/\ \A n \in CpuLens, k \in ComLens :
              Outcome(ParallelJobProfile(Numbers(n), Numbers(k)), k = n * n)
       /\ \A ps \in ProfileLists, n \in Repeats :
              Outcome(ComposedJobProfile(ps, n),
                      n >= 1 /\ \A i \in DOMAIN ps : ps[i] # NotAProfile)
       /\ \A a \in Bytes, b \in Bytes, l \in Labels :
              Outcome(ParallelHomogeneousPFSJobProfile(a, b, l),
                      a >= 0 /\ b >= 0 /\ l # "")
       /\ \A a \in Bytes, l \in Labels, m \in Labels :
              Outcome(DataStagingJobProfile(a, l, m),
                      a >= 0 /\ l # "" /\ m # "")
       /\ Outcome(NotAProfile, FALSE)
       /\ profile'.type = "COMPOSED" => profile'.repeat >= 1
      ]_vars

\* a Job on a composed profile of two profiles repeated twice, then a
\* construction that raised and left it alone
C24_Witness ==
    /\ raised
    /\ profile.type = "COMPOSED"
    /\ profile.repeat = MaxRepeat
    /\ Len(profile.profiles) = 2

\* C25: a transition dispatches its own event, and only that one, within
\* the call that applies it, and the handlers find the job as the call
\* leaves it: ALLOCATED with the allocation, RUNNING with start_time for
\* STARTED, the final state with stop_time for COMPLETED, COMPLETED_KILLED
\* with stop_time for KILLED
C25_HandlersSeeTransition ==
    [][/\ \A e \in JobEvent :
              Fires(e) =>
                  /\ \A e2 \in JobEvent \ {e} :
                         delivered'[e2] = delivered[e2]
                  /\ seen' = [event |-> e, state |-> state',
                              allocation |-> allocation',
                              start_time |-> start_time',
                              stop_time |-> stop_time', subtime |-> subtime']
                  /\ e = "ALLOCATED" =>
                         state' = "ALLOCATED" /\ allocation' # None
                  /\ e = "STARTED" =>
                         state' = "RUNNING" /\ start_time' # None
                  /\ e = "COMPLETED" =>
                         state' \in Completed3 /\ stop_time' # None
                  /\ e = "KILLED" =>
                         state' = "COMPLETED_KILLED" /\ stop_time' # None
       /\ fields' # fields => \E e \in JobEvent : Fires(e)
      ]_vars

\* two handlers subscribed to STARTED were called and saw the job RUNNING
\* with its start_time, after ALLOCATED had been dispatched
C25_Witness ==
    /\ seen.event = "STARTED"
    /\ delivered["STARTED"] = <<<<1, 2>>>>
    /\ delivered["ALLOCATED"] # <<>>
    /\ seen.state = "RUNNING"
    /\ seen.start_time = Some(1)

\* C26: a handler subscribed to (job, kind) by a handler of that kind while
\* the kind is being dispatched is still registered when the dispatch returns
C26_ResubscriptionSurvives ==
    [][/\ \A k \in Subscribable("REJECTED") :
             RejectResubscribing(k) => k \in {receivers'["REJECTED"][i] :
                                        i \in DOMAIN receivers'["REJECTED"]}
       /\ \A t \in BusTimes, k \in Subscribable("SUBMITTED") :
             SubmitResubscribing(t, k) /\ ~raised'
                => k \in {receivers'["SUBMITTED"][i] :
                             i \in DOMAIN receivers'["SUBMITTED"]}]_vars

\* C27: the SchedulerMonitor counters track every job outcome: a successful
\* submit adds one to nb_jobs, a reject one to nb_jobs_rejected, a job whose
\* stop_time becomes set (by terminate or by kill) one to nb_jobs_finished,
\* and a kill one to nb_jobs_killed
C27_CountersTrackOutcomes ==
    [][~crashed' =>
          /\ Fires("SUBMITTED") => sm'.nb_jobs = sm.nb_jobs + 1
          /\ Fires("REJECTED") =>
                sm'.nb_jobs_rejected = sm.nb_jobs_rejected + 1
          /\ jid' = jid /\ stop_time = None /\ stop_time' # None =>
                sm'.nb_jobs_finished = sm.nb_jobs_finished + 1
          /\ Fires("KILLED") => sm'.nb_jobs_killed = sm.nb_jobs_killed + 1]_vars

\* C28: JobMonitor holds at most one record per job: no job id appears more
\* than once in the job_id column
C28_OneRecordPerJob ==
    \A a, b \in DOMAIN jm["job_id"] :
        a # b => jm["job_id"][a] # jm["job_id"][b]

\* the job and every monitor are as they were and nothing was dispatched
NothingHappened ==
    /\ UNCHANGED <<state, subtime, allocation, start_time, stop_time>>
    /\ UNCHANGED <<delivered, receivers, seen>>
    /\ UNCHANGED <<jm, sm, hm, hs, hp, ce>>

\* C29: a submit, allocate, start, kill or terminate that raises leaves state,
\* subtime, allocation, start_time and stop_time unchanged and dispatches no
\* event, so no monitor accumulator changes
C29_RaisingCallChangesNothing ==
    [][/\ \A t \in JobTimes :
            /\ Submit(t) /\ raised' => NothingHappened
            /\ Start(t) /\ raised' => NothingHappened
            /\ Kill(t) /\ raised' => NothingHappened
            /\ \A st \in JobState :
                  Terminate(t, st) /\ raised' => NothingHappened
       /\ \A hosts \in HostLists :
            Allocate(hosts) /\ raised' => NothingHappened]_vars

\* a call raised on a job that has finished and has its JobMonitor record
C29_Witness ==
    /\ raised
    /\ stop_time # None
    /\ Len(jm["job_id"]) = 1
    /\ phase = "running"

\* C30: in every reachable job state subtime <= start_time whenever
\* start_time is set and start_time <= stop_time whenever stop_time is set,
\* so waiting_time, runtime and turnaround_time are never negative
C30_TimestampsOrdered ==
    /\ start_time # None => subtime <= Val(start_time)
    /\ stop_time # None =>
          /\ start_time # None
          /\ Val(start_time) <= Val(stop_time)
    /\ waiting_time # None => Val(waiting_time) >= 0
    /\ runtime # None => Val(runtime) >= 0
    /\ turnaround_time # None => Val(turnaround_time) >= 0

\* a finished job that waited and then ran, each for a positive time
C30_Witness ==
    /\ stop_time # None
    /\ Val(waiting_time) > 0
    /\ Val(runtime) > 0

\* C31: in every reachable job state, stop_time set implies start_time set,
\* start_time set implies allocation set, the state is RUNNING iff start_time
\* is set and stop_time is not, ALLOCATED implies an allocation and no
\* start_time, and the job is finished iff its state is one of the four
\* COMPLETED_* states
C31_FieldsConsistent ==
    /\ stop_time # None => start_time # None
    /\ start_time # None => allocation # None
    /\ is_running <=> (start_time # None /\ stop_time = None)
    /\ is_runnable => (allocation # None /\ start_time = None)
    /\ is_finished <=> state \in Completed3 \cup {"COMPLETED_KILLED"}

\* a job that was terminated and then killed: finished, not running
C31_Witness ==
    /\ is_finished
    /\ state = "COMPLETED_KILLED"
    /\ Len(delivered["COMPLETED"]) = 1
    /\ Len(delivered["KILLED"]) = 1

JobCounters ==
    {"nb_jobs", "nb_jobs_finished", "nb_jobs_killed", "nb_jobs_rejected",
     "nb_jobs_success"}

\* C32: after SIMULATION_BEGINS and any sequence of job events,
\* nb_jobs_finished = nb_jobs_success + nb_jobs_killed, and the five job
\* counters are non-negative and never decrease
C32_CountersConsistent ==
    [][phase # "idle" =>
          /\ sm'.nb_jobs_finished = sm'.nb_jobs_success + sm'.nb_jobs_killed
          /\ \A c \in JobCounters : sm'[c] >= 0 /\ sm'[c] >= sm[c]]_vars

\* two jobs finished, one successfully and one not
C32_Witness ==
    /\ phase = "running"
    /\ sm.nb_jobs_finished = 2
    /\ sm.nb_jobs_success = 1
    /\ sm.nb_jobs_killed = 1

\* the hosts of the platform that are in state st
HostsIn(st) == Cardinality({i \in DOMAIN platform : platform[i].state = st})

\* C33: after SIMULATION_BEGINS and any sequence of host state changes the
\* six series of HostStateSwitchMonitor have equal length, every count of
\* every row is >= 0, the five counts of each row add up to the platform's
\* host count, and the last row counts the hosts currently in each state
C33_CountsConserved ==
    phase # "idle" =>
        LET n == Len(hs.info["time"])
        IN  /\ n >= 1
            /\ \A k \in SeriesKeys : Len(hs.info[k]) = n
            /\ \A r \in 1 .. n :
                  /\ \A k \in StateKeys : hs.info[k][r] >= 0
                  /\ hs.info["nb_idle"][r] + hs.info["nb_computing"][r]
                        + hs.info["nb_sleeping"][r]
                        + hs.info["nb_switching_on"][r]
                        + hs.info["nb_switching_off"][r] = Len(platform)
            /\ \A st \in HostState : hs.info[StateCount[st]][n] = HostsIn(st)

\* two hosts, each moved once at a time of its own, out of the seed states
C33_Witness ==
    /\ phase = "running"
    /\ Len(platform) = 2
    /\ hs.info["time"] = <<0, 10, 15>>
    /\ hs.info["nb_switching_off"][3] = 1
    /\ hs.info["nb_sleeping"][3] = 1

\* what HostMonitor m has counted at time t: consumed_joules plus, for each
\* host, the time since its recorded t_start times its recorded power (or 0)
JoulesUpTo(m, t) ==
    m.info.consumed_joules
    + SumTo([i \in DOMAIN platform |->
               LET l == m.last[platform[i].id]
               IN  (t - l[1]) * (IF l[2] = None THEN 0 ELSE Val(l[2]))],
            Len(platform))

\* C34: whenever ConsumedEnergyMonitor appends a row, its cumulative energy
\* equals HostMonitor's consumed_joules plus, for each host, the time since
\* HostMonitor's t_start of the host times the host's recorded power (or 0);
\* a last row appended at the SIMULATION_ENDS time equals consumed_joules
\* after the flush
C34_EnergyAccountsAgree ==
    [][/\ EnergyEvent => EnergyRow(ce')["energy"] = JoulesUpTo(hm', now)
       /\ (phase' = "ended" /\ ce'.info["time"] # <<>>
             /\ EnergyRow(ce')["time"] = now) =>
              EnergyRow(ce')["energy"] = hm'.info.consumed_joules]_vars

\* ended at 15 with the last of two rows appended at 15, after a host lost
\* its power at 10
C34_Witness ==
    /\ phase = "ended"
    /\ now = 15
    /\ ce.info["time"] = <<10, 15>>
    /\ hm.info.consumed_joules = ce.info["energy"][2]
    /\ \E i \in DOMAIN platform : platform[i].power = None
    /\ ce.info["energy"][2] > 0

\* C35: when a monitor raises on a host event because of an unrecognized
\* host state, it is left as it was before the event: HostMonitor's buckets,
\* energy totals and snapshots are unchanged, and HostStateSwitchMonitor's
\* series keep their length and values
C35_RaiseLeavesMonitorUntouched ==
    [][(phase = "running" /\ nevents' > nevents /\ crashed') =>
          /\ "HostMonitor" \in built => hm' = hm
          /\ "HostStateSwitchMonitor" \in built => hs' = hs]_vars

====
